---------------------------- MODULE Spec2Model ----------------------------
(***************************************************************************)
(* A model of the ordinal "snipe" subsystem of decentralized-ffi: the      *)
(* dummy transaction used for fee estimation, the snipe PSBT builders      *)
(* (rune and inscription variants), the split builders, the RuneId         *)
(* arithmetic and the runestone parser.                                    *)
(*                                                                         *)
(* Amounts are satoshis, sizes are bytes / weight units.  A script_pubkey  *)
(* is a record [kind, id]: kind fixes its length and its dust threshold,   *)
(* id tells two scripts of the same kind apart.  A script_sig is modelled  *)
(* by its length in bytes and a witness by the sequence of the lengths of  *)
(* its items; that is all the size computation reads.  Option values are   *)
(* sequences: None is << >> and Some(x) is << x >>.                         *)
(***************************************************************************)
EXTENDS Integers, Sequences, FiniteSets, TLC

VARIABLES
    args,               \* the arguments of the snipe build under way
    pc,                 \* the builder's position
    dummy_signed_tx_1,  \* the DummyTransaction mirrored beside unsigned_tx
    unsigned_tx,        \* the transaction under construction
    psbt_inputs,        \* per-input PSBT records
    need_amount,        \* outputs_amount - inputs_amount
    extra_network_fee,  \* the 1-satoshi fee bumps accumulated so far
    amount,             \* cumulative value of the cardinal UTXOs taken
    network_fee,        \* fee of the dummy transaction at this funding level
    taken,              \* how many cardinal UTXOs the outer loop has taken
    ok,                 \* the loop finalized
    result,             \* "none" while running, then the outcome
    psbt,               \* the PSBT returned (NoPsbt when none)
    call,               \* a call of one of the pure functions: its name and arguments
    ret,                \* what that call returned (NoRet before it ran)
    objects,            \* the request builders and requests: a Mutex around an Option
    threads             \* the callers of the request objects: the call each one is in

snipeVars == << args, pc, dummy_signed_tx_1, unsigned_tx, psbt_inputs, need_amount,
                extra_network_fee, amount, network_fee, taken, ok, result, psbt >>

\* the variables of a build but for the position in it
snipeVarsButPc == << args, dummy_signed_tx_1, unsigned_tx, psbt_inputs, need_amount,
                     extra_network_fee, amount, network_fee, taken, ok, result, psbt >>

callVars == << call, ret >>

requestVars == << objects, threads >>

vars == << snipeVars, callVars, requestVars >>

-----------------------------------------------------------------------------
(* Bounds of the model *)

MaxVictims == 1

MaxCardinal == 2

\* The integer types are scaled down, their order kept: u32, u64 and u128
\* end at these values.
U32Max == 255

U64Max == 4095

U128Max == 65535

\* the longest string handed to RuneId::from_string
MaxStrLen == 5

-----------------------------------------------------------------------------
(* Option values *)

None == << >>

Some(x) == << x >>

RECURSIVE SeqSum(_)
SeqSum(s) == IF s = << >> THEN 0 ELSE s[1] + SeqSum(Tail(s))

-----------------------------------------------------------------------------
(* Scripts, dust, sizes *)

ScriptKinds == {"p2pkh", "p2sh", "p2wpkh", "p2wsh", "p2tr"}

Script(kind, id) == [kind |-> kind, id |-> id]

\* length in bytes of a script_pubkey of each standard kind
ScriptLen(script) ==
    CASE script.kind = "p2pkh"  -> 25
      [] script.kind = "p2sh"   -> 23
      [] script.kind = "p2wpkh" -> 22
      [] script.kind = "p2wsh"  -> 34
      [] script.kind = "p2tr"   -> 34
      [] script.kind = "op_return" -> script.len

IsWitnessProgram(script) == script.kind \in {"p2wpkh", "p2wsh", "p2tr"}

\* Bitcoin's compact-size prefix of a length
VarIntLen(n) == IF n < 253 THEN 1 ELSE 3

\* ScriptBuf::minimal_non_dust(): 3000 sat/kvB times the bytes of the output
\* plus the bytes of a typical input spending it
MinimalNonDust(script) ==
    LET out == 8 + VarIntLen(ScriptLen(script)) + ScriptLen(script)
        spend == IF IsWitnessProgram(script)
                 THEN 32 + 4 + 1 + (107 \div 4) + 4
                 ELSE 32 + 4 + 1 + 107 + 4
    IN  IF script.kind = "op_return" THEN 0 ELSE (3000 * (spend + out)) \div 1000

TxOut(value, script_pubkey) == [value |-> value, script_pubkey |-> script_pubkey]

\* TxIn { previous_output, sequence, ..Default::default() }
TxIn(previous_output, sequence) ==
    [previous_output |-> previous_output, sequence |-> sequence,
     script_sig |-> 0, witness |-> << >>]

-----------------------------------------------------------------------------
(* DummyTransaction *)

DummyTransactionNew == [input |-> << >>, output |-> << >>]

AppendInput(dummy, script_pubkey, sig, witness) ==
    LET s == IF sig # None THEN sig[1]
             ELSE IF script_pubkey.kind = "p2sh" THEN 23
             ELSE IF script_pubkey.kind = "p2wsh" THEN 34
             ELSE 0
        w == IF witness # None THEN witness[1]
             ELSE IF script_pubkey.kind = "p2tr" THEN << 64 >>
             ELSE IF script_pubkey.kind = "p2wpkh" THEN << 105 >>
             ELSE << >>
    IN  [dummy EXCEPT !.input = Append(@, [script_sig |-> s, witness |-> w])]

AppendOutput(dummy, script_pubkey) ==
    [dummy EXCEPT !.output = Append(@, TxOut(0, script_pubkey))]

WitnessSize(w) ==
    VarIntLen(Len(w)) + SeqSum([i \in 1..Len(w) |-> VarIntLen(w[i]) + w[i]])

BaseSize(tx) ==
    4 + VarIntLen(Len(tx.input))
      + SeqSum([i \in 1..Len(tx.input) |->
                  32 + 4 + VarIntLen(tx.input[i].script_sig) + tx.input[i].script_sig + 4])
      + VarIntLen(Len(tx.output))
      + SeqSum([i \in 1..Len(tx.output) |->
                  8 + VarIntLen(ScriptLen(tx.output[i].script_pubkey))
                    + ScriptLen(tx.output[i].script_pubkey)])
      + 4

TotalSize(tx) ==
    BaseSize(tx)
      + IF \E i \in 1..Len(tx.input) : tx.input[i].witness # << >>
        THEN 2 + SeqSum([i \in 1..Len(tx.input) |-> WitnessSize(tx.input[i].witness)])
        ELSE 0

\* DummyTransaction::weight(): Transaction::weight() of the wrapped transaction
Weight(dummy) == BaseSize(dummy) * 3 + TotalSize(dummy)

\* DummyTransaction::vsize(): the weight in virtual bytes, rounded up
Vsize(dummy) == (Weight(dummy) + 3) \div 4

\* FeeRate::fee_wu: sat/kwu times weight units, rounded up
FeeWu(fee_rate, wu) == (fee_rate * wu + 999) \div 1000

\* FeeRate::fee_vb: the fee of vb virtual bytes
FeeVb(fee_rate, vb) == FeeWu(fee_rate, vb * 4)


-----------------------------------------------------------------------------
(* The snipe builders: build_snipe_rune_psbt and build_snipe_inscription_psbt *)

\* no call of a pure function is under way in a snipe build
NoCall == [op |-> "none"]

NoRet == [tag |-> "none"]

\* no request object and no caller of one
RequestsIdle ==
    /\ objects = << >>
    /\ threads = << >>

NoPsbt == [unsigned_tx |-> [input |-> << >>, output |-> << >>],
           inputs |-> << >>, outputs |-> << >>]

\* psbt::Output::default()
DefaultOutput == [redeem_script |-> None, witness_script |-> None]

\* the victim loop: the unsigned inputs keep only outpoint and sequence
VictimInputs(pairs) ==
    [i \in 1..Len(pairs) |->
        TxIn(pairs[i].txin.previous_output, pairs[i].txin.sequence)]

\* the victim loop: the PSBT record of a victim input, already solved
VictimPsbtInputs(pairs) ==
    [i \in 1..Len(pairs) |->
        [witness_utxo |-> Some(TxOut(pairs[i].prevout.value, pairs[i].prevout.script_pubkey)),
         final_script_witness |-> Some(pairs[i].txin.witness),
         final_script_sig |-> Some(pairs[i].txin.script_sig)]]

\* the victim loop: the desired outputs, in caller order
VictimOutputs(pairs) == [i \in 1..Len(pairs) |-> pairs[i].txout]

\* mutant: the victims' outputs not mirrored
RECURSIVE MirrorVictimsInputs(_, _)
MirrorVictimsInputs(dummy, pairs) ==
    IF pairs = << >> THEN dummy
    ELSE MirrorVictimsInputs(
            AppendInput(dummy, pairs[1].prevout.script_pubkey,
                        Some(pairs[1].txin.script_sig), Some(pairs[1].txin.witness)),
            Tail(pairs))

\* the victim loop: each pair mirrored into the dummy with its real
\* script_sig and witness
RECURSIVE MirrorVictims(_, _)
MirrorVictims(dummy, pairs) ==
    IF pairs = << >> THEN dummy
    ELSE MirrorVictims(
            AppendOutput(
                AppendInput(dummy, pairs[1].prevout.script_pubkey,
                            Some(pairs[1].txin.script_sig), Some(pairs[1].txin.witness)),
                pairs[1].txout.script_pubkey),
            Tail(pairs))

OutputsAmount(pairs) == SeqSum([i \in 1..Len(pairs) |-> pairs[i].txout.value])

PrevoutsAmount(pairs) == SeqSum([i \in 1..Len(pairs) |-> pairs[i].prevout.value])

\* mutant: the placeholder pushed after the victims' outputs
InsertPlaceholderLast(outputs, rev_addr) == outputs \o << TxOut(0, rev_addr) >>

\* buyer_unsigned_tx.output.insert(0, TxOut { value: ZERO, script_pubkey: rev_addr })
InsertPlaceholder(outputs, rev_addr) == << TxOut(0, rev_addr) >> \o outputs

\* the PSBT record of a wallet-funded input
FundingPsbtInput(utxo, pay_addr) ==
    [witness_utxo |-> Some(TxOut(utxo.txout.value, pay_addr)),
     final_script_witness |-> None,
     final_script_sig |-> None]

\* the unsigned input spending a wallet UTXO
FundingTxIn(utxo) == TxIn(utxo.outpoint, "ENABLE_RBF_NO_LOCKTIME")

\* amount.checked_sub(network_fee + need_amount + extra_network_fee);
\* a negative value stands for None
Unfilled(amt, fee, need, extra) == amt - (fee + need + extra)

\* the threshold the inner loop compares the change with
DustLimit(a) == MinimalNonDust(a.pay_addr)

\* mutant: no fee accepted
FeeClearsNever(fee, extra, min_fee) == FALSE

\* mutant: a fee equal to min_fee accepted
FeeClearsAtFloor(fee, extra, min_fee) == (fee + extra) >= min_fee

\* (network_fee + extra_network_fee) > min_fee
FeeClears(fee, extra, min_fee) == (fee + extra) > min_fee

\* lines 72-138: the victim loop, the placeholder output and need_amount
PrepareRune ==
    /\ pc = "entry"
    /\ args.variant = "rune"
    /\ LET pairs == args.snipe_utxo_pairs
           outputs_amount == OutputsAmount(pairs)
           inputs_amount == PrevoutsAmount(pairs)
       IN  /\ unsigned_tx' = [input |-> VictimInputs(pairs),
                              output |-> InsertPlaceholder(VictimOutputs(pairs), args.rev_addr)]
           /\ dummy_signed_tx_1' =
                 AppendOutput(MirrorVictims(DummyTransactionNew, pairs), args.rev_addr)
           /\ psbt_inputs' = VictimPsbtInputs(pairs)
           /\ IF outputs_amount < inputs_amount
              THEN \* Amount - Amount panics on underflow
                   /\ need_amount' = 0
                   /\ result' = "panic"
                   /\ pc' = "done"
              ELSE /\ need_amount' = outputs_amount - inputs_amount
                   /\ result' = result
                   /\ pc' = "outer"
    /\ UNCHANGED << args, extra_network_fee, amount, network_fee, taken, ok, psbt >>
    /\ UNCHANGED << callVars, requestVars >>

\* mutant: the last element taken for the first
Last(list) == IF list = << >> THEN None ELSE Some(list[Len(list)])

\* dummy_utxos.first()
First(list) == IF list = << >> THEN None ELSE Some(list[1])

\* lines 367-454: as PrepareRune, after the first dummy UTXO became input 0
PrepareInscription ==
    /\ pc = "entry"
    /\ args.variant = "inscription"
    /\ IF First(args.dummy_utxos) = None
       THEN /\ result' = "MissingDummyUtxo"
            /\ pc' = "done"
            /\ UNCHANGED << unsigned_tx, dummy_signed_tx_1, psbt_inputs, need_amount >>
       ELSE LET pairs == args.snipe_utxo_pairs
                dummy_utxo == First(args.dummy_utxos)[1]
                outputs_amount == OutputsAmount(pairs)
                inputs_amount == dummy_utxo.txout.value + PrevoutsAmount(pairs)
            IN  /\ unsigned_tx' =
                      [input |-> << FundingTxIn(dummy_utxo) >> \o VictimInputs(pairs),
                       output |-> InsertPlaceholder(VictimOutputs(pairs), args.rev_addr)]
                /\ dummy_signed_tx_1' =
                      AppendOutput(
                          MirrorVictims(
                              AppendInput(DummyTransactionNew,
                                          dummy_utxo.txout.script_pubkey, None, None),
                              pairs),
                          args.rev_addr)
                /\ psbt_inputs' =
                      << [witness_utxo |-> Some(TxOut(dummy_utxo.txout.value,
                                                      dummy_utxo.txout.script_pubkey)),
                          final_script_witness |-> None,
                          final_script_sig |-> None] >>
                      \o VictimPsbtInputs(pairs)
                /\ IF outputs_amount < inputs_amount
                   THEN /\ need_amount' = 0
                        /\ result' = "panic"
                        /\ pc' = "done"
                   ELSE /\ need_amount' = outputs_amount - inputs_amount
                        /\ result' = result
                        /\ pc' = "outer"
    /\ UNCHANGED << args, extra_network_fee, amount, network_fee, taken, ok, psbt >>
    /\ UNCHANGED << callVars, requestVars >>

\* mutant: every element pushed to the end
PushAlways(list, first, element) == Append(list, element)

\* mutant: every element inserted at the front
InsertAlways(list, first, element) == << element >> \o list

\* if !init { .insert(0, ..) } else { .push(..) }
InsertOrPush(list, first, element) ==
    IF first THEN << element >> \o list ELSE Append(list, element)

\* lines 140-188: the next cardinal UTXO becomes an input (the first one is
\* prepended, the later ones appended) and the fee is recomputed by weight
TakeUtxoRune ==
    /\ pc = "outer"
    /\ args.variant = "rune"
    /\ taken < Len(args.cardinal_utxos)
    /\ LET utxo == args.cardinal_utxos[taken + 1]
           dummy == AppendInput(dummy_signed_tx_1, args.pay_addr, None, None)
       IN  /\ amount' = amount + utxo.txout.value
           /\ psbt_inputs' = InsertOrPush(psbt_inputs, taken = 0,
                                           FundingPsbtInput(utxo, args.pay_addr))
           /\ unsigned_tx' = [unsigned_tx EXCEPT
                                 !.input = InsertOrPush(@, taken = 0, FundingTxIn(utxo))]
           /\ dummy_signed_tx_1' = dummy
           /\ network_fee' = FeeWu(args.fee_rate, Weight(dummy))
    /\ taken' = taken + 1
    /\ pc' = "inner"
    /\ UNCHANGED << args, need_amount, extra_network_fee, ok, result, psbt >>
    /\ UNCHANGED << callVars, requestVars >>

\* lines 456-482: every cardinal UTXO is appended and the fee is recomputed
\* by virtual size
TakeUtxoInscription ==
    /\ pc = "outer"
    /\ args.variant = "inscription"
    /\ taken < Len(args.cardinal_utxos)
    /\ LET utxo == args.cardinal_utxos[taken + 1]
           dummy == AppendInput(dummy_signed_tx_1, args.pay_addr, None, None)
       IN  /\ amount' = amount + utxo.txout.value
           /\ psbt_inputs' = Append(psbt_inputs, FundingPsbtInput(utxo, args.pay_addr))
           /\ unsigned_tx' = [unsigned_tx EXCEPT !.input = Append(@, FundingTxIn(utxo))]
           /\ dummy_signed_tx_1' = dummy
           /\ network_fee' = FeeVb(args.fee_rate, Vsize(dummy))
    /\ taken' = taken + 1
    /\ pc' = "inner"
    /\ UNCHANGED << args, need_amount, extra_network_fee, ok, result, psbt >>
    /\ UNCHANGED << callVars, requestVars >>

\* lines 207-209: checked_sub fails, continue 'outer
Insufficient ==
    /\ pc = "inner"
    /\ Unfilled(amount, network_fee, need_amount, extra_network_fee) < 0
    /\ pc' = "outer"
    /\ UNCHANGED << args, dummy_signed_tx_1, unsigned_tx, psbt_inputs, need_amount,
                    extra_network_fee, amount, network_fee, taken, ok, result, psbt >>
    /\ UNCHANGED << callVars, requestVars >>

\* lines 193-196: the change is below the dust limit, break out of the inner loop
DustBreak ==
    /\ pc = "inner"
    /\ Unfilled(amount, network_fee, need_amount, extra_network_fee) >= 0
    /\ Unfilled(amount, network_fee, need_amount, extra_network_fee) < DustLimit(args)
    /\ pc' = "outer"
    /\ UNCHANGED << args, dummy_signed_tx_1, unsigned_tx, psbt_inputs, need_amount,
                    extra_network_fee, amount, network_fee, taken, ok, result, psbt >>
    /\ UNCHANGED << callVars, requestVars >>

\* lines 198-204: the fee clears min_fee, output[0] takes the change, break 'outer
Finalize ==
    /\ pc = "inner"
    /\ Unfilled(amount, network_fee, need_amount, extra_network_fee) >= DustLimit(args)
    /\ FeeClears(network_fee, extra_network_fee, args.min_fee)
    /\ unsigned_tx' = [unsigned_tx EXCEPT !.output[1].value =
                          Unfilled(amount, network_fee, need_amount, extra_network_fee)]
    /\ ok' = TRUE
    /\ pc' = "exit"
    /\ UNCHANGED << args, dummy_signed_tx_1, psbt_inputs, need_amount, extra_network_fee,
                    amount, network_fee, taken, result, psbt >>
    /\ UNCHANGED << callVars, requestVars >>

\* lines 205-206: one more satoshi of fee, and the inner loop goes round
BumpFee ==
    /\ pc = "inner"
    /\ Unfilled(amount, network_fee, need_amount, extra_network_fee) >= DustLimit(args)
    /\ ~FeeClears(network_fee, extra_network_fee, args.min_fee)
    /\ extra_network_fee' = extra_network_fee + 1
    /\ UNCHANGED << args, pc, dummy_signed_tx_1, unsigned_tx, psbt_inputs, need_amount,
                    amount, network_fee, taken, ok, result, psbt >>
    /\ UNCHANGED << callVars, requestVars >>

\* the outer loop runs out of cardinal UTXOs
Exhausted ==
    /\ pc = "outer"
    /\ taken = Len(args.cardinal_utxos)
    /\ pc' = "exit"
    /\ UNCHANGED << args, dummy_signed_tx_1, unsigned_tx, psbt_inputs, need_amount,
                    extra_network_fee, amount, network_fee, taken, ok, result, psbt >>
    /\ UNCHANGED << callVars, requestVars >>

\* lines 212-227: Err(UtxoNotEnough) unless ok, else the PSBT
Return ==
    /\ pc = "exit"
    /\ IF ~ok
       THEN /\ result' = "UtxoNotEnough"
            /\ psbt' = psbt
       ELSE /\ result' = "Ok"
            /\ psbt' = [unsigned_tx |-> unsigned_tx,
                        inputs |-> psbt_inputs,
                        outputs |-> [i \in 1..Len(unsigned_tx.output) |-> DefaultOutput]]
    /\ pc' = "done"
    /\ UNCHANGED << args, dummy_signed_tx_1, unsigned_tx, psbt_inputs, need_amount,
                    extra_network_fee, amount, network_fee, taken, ok >>
    /\ UNCHANGED << callVars, requestVars >>

-----------------------------------------------------------------------------
(* The builds explored.  The victims are taproot outputs spent with one     *)
(* 65-byte signature; the values of the cardinal UTXOs and min_fee are      *)
(* taken around the thresholds of the transaction at hand, so that every    *)
(* branch of the funding loop is taken for every combination of scripts.    *)

PayKinds == {"p2wpkh", "p2tr", "p2sh"}

RecvKinds == {"p2tr", "p2pkh", "p2wpkh"}

\* sat/kwu: 1 and 2 sat/vB
FeeRates == {250, 500}

\* << prevout.value, txout.value >> of a victim pair
VictimValues == {<< 546, 546 >>, << 546, 1500 >>, << 1500, 546 >>}

VictimPair(i, v) ==
    [txin |-> [previous_output |-> << "victim", i >>, sequence |-> "MAX",
               script_sig |-> 0, witness |-> << 65 >>],
     prevout |-> TxOut(v[1], Script("p2tr", << "victim", i >>)),
     txout |-> TxOut(v[2], Script("p2tr", << "seller", i >>))]

PairLists ==
    UNION {{[i \in 1..n |-> VictimPair(i, vs[i])] : vs \in [1..n -> VictimValues]}
           : n \in 0..MaxVictims}

LocalOutput(outpoint, value, script_pubkey) ==
    [outpoint |-> outpoint, txout |-> TxOut(value, script_pubkey)]

DummyUtxoLists(pay_addr) ==
    {<< >>, << LocalOutput(<< "dummy", 1 >>, 600, pay_addr) >>,
     << LocalOutput(<< "dummy", 1 >>, 600, pay_addr),
        LocalOutput(<< "dummy", 2 >>, 700, pay_addr) >>}

\* the dummy transaction built afresh for the first k cardinal UTXOs
DummyAt(a, k) ==
    LET start == IF a.variant = "inscription" /\ a.dummy_utxos # << >>
                 THEN AppendInput(DummyTransactionNew,
                                  a.dummy_utxos[1].txout.script_pubkey, None, None)
                 ELSE DummyTransactionNew
        shell == AppendOutput(MirrorVictims(start, a.snipe_utxo_pairs), a.rev_addr)
        RECURSIVE Fund(_, _)
        Fund(d, n) == IF n = 0 THEN d
                      ELSE Fund(AppendInput(d, a.pay_addr, None, None), n - 1)
    IN  Fund(shell, k)

\* the fee each variant computes for the first k cardinal UTXOs
NetworkFeeAt(a, k) ==
    IF a.variant = "rune"
    THEN FeeWu(a.fee_rate, Weight(DummyAt(a, k)))
    ELSE FeeVb(a.fee_rate, Vsize(DummyAt(a, k)))

\* outputs_amount - inputs_amount as an integer
NeedOf(a) ==
    OutputsAmount(a.snipe_utxo_pairs) - PrevoutsAmount(a.snipe_utxo_pairs)
      - (IF a.variant = "inscription" /\ a.dummy_utxos # << >>
         THEN a.dummy_utxos[1].txout.value ELSE 0)

\* the least first UTXO whose change is not dust without a fee bump
Threshold(a) ==
    NetworkFeeAt(a, 1) + (IF NeedOf(a) > 0 THEN NeedOf(a) ELSE 0) + DustLimit(a)

CardinalValues(a) ==
    {NetworkFeeAt(a, 2) - NetworkFeeAt(a, 1),
     Threshold(a) - 1, Threshold(a), Threshold(a) + 2}

MinFees(a) == {NetworkFeeAt(a, 1) - 1, NetworkFeeAt(a, 1) + 1}

\* the script_pubkey of the first cardinal UTXO: pay_addr's, or that of
\* another address of the wallet
CardinalScripts(a) == {a.pay_addr, Script(a.pay_addr.kind, << "pay", 1 >>)}

CardinalLists(a) ==
    UNION {{[j \in 1..k |-> LocalOutput(<< "cardinal", j >>, vs[j],
                                        IF j = 1 THEN first ELSE a.pay_addr)]
              : vs \in [1..k -> CardinalValues(a)], first \in CardinalScripts(a)}
           : k \in 0..MaxCardinal}

\* the arguments but for the cardinal UTXOs and min_fee
Shape(v, pairs, d, pk, rk, fr) ==
    [variant |-> v, snipe_utxo_pairs |-> pairs, dummy_utxos |-> d,
     pay_addr |-> Script(pk, << "pay", 0 >>),
     rev_addr |-> Script(rk, << "recv", 0 >>),
     fee_rate |-> fr, cardinal_utxos |-> << >>, min_fee |-> 0]

Init ==
    /\ \E v \in {"rune", "inscription"}, pairs \in PairLists,
          pk \in PayKinds, rk \in RecvKinds, fr \in FeeRates :
          \E d \in IF v = "rune" THEN {<< >>}
                   ELSE DummyUtxoLists(Script(pk, << "pay", 0 >>)) :
             LET a == Shape(v, pairs, d, pk, rk, fr)
             IN  \E c \in CardinalLists(a), m \in MinFees(a) :
                    args = [a EXCEPT !.cardinal_utxos = c, !.min_fee = m]
    /\ pc = "entry"
    /\ dummy_signed_tx_1 = DummyTransactionNew
    /\ unsigned_tx = [input |-> << >>, output |-> << >>]
    /\ psbt_inputs = << >>
    /\ need_amount = 0
    /\ extra_network_fee = 0
    /\ amount = 0
    /\ network_fee = 0
    /\ taken = 0
    /\ ok = FALSE
    /\ result = "none"
    /\ psbt = NoPsbt
    /\ call = NoCall
    /\ ret = NoRet
    /\ RequestsIdle

Next ==
    \/ PrepareRune
    \/ PrepareInscription
    \/ TakeUtxoRune
    \/ TakeUtxoInscription
    \/ Insufficient
    \/ DustBreak
    \/ Finalize
    \/ BumpFee
    \/ Exhausted
    \/ Return

Spec == Init /\ [][Next]_vars

-----------------------------------------------------------------------------
(* Properties of the snipe builders *)

\* the cardinal outpoints the caller supplied
CardinalOutpoints == {args.cardinal_utxos[j].outpoint : j \in 1..Len(args.cardinal_utxos)}

\* the number of wallet-funded inputs of the returned transaction
CardinalInputs ==
    Cardinality({i \in 1..Len(psbt.unsigned_tx.input) :
                    psbt.unsigned_tx.input[i].previous_output \in CardinalOutpoints})

\* the cumulative value of the first k cardinal UTXOs
CardinalAmount(a, k) == SeqSum([j \in 1..k |-> a.cardinal_utxos[j].txout.value])

\* the values recorded in the per-input witness_utxo, summed
PsbtInputValue == SeqSum([i \in 1..Len(psbt.inputs) |-> psbt.inputs[i].witness_utxo[1].value])

PsbtOutputValue ==
    SeqSum([i \in 1..Len(psbt.unsigned_tx.output) |-> psbt.unsigned_tx.output[i].value])

\* C1: whenever a snipe builder returns Ok, the fee it finalized with, the
\* fee of the dummy transaction of the final input set plus the bumps, is
\* strictly above min_fee.
C1_FeeFloor ==
    result = "Ok" =>
        /\ network_fee = NetworkFeeAt(args, CardinalInputs)
        /\ network_fee + extra_network_fee > args.min_fee
        /\ PsbtInputValue - PsbtOutputValue > args.min_fee

\* C1 witness: a build that had to bump and returned with the fee one
\* satoshi above min_fee
C1_Witness ==
    /\ result = "Ok"
    /\ extra_network_fee > 0
    /\ network_fee + extra_network_fee = args.min_fee + 1

\* C2: whenever a snipe builder returns Ok, output[0] carries at least the
\* dust threshold of its own script, the script of recv_addr.
C2_DustGuard ==
    result = "Ok" =>
        psbt.unsigned_tx.output[1].value
            >= MinimalNonDust(psbt.unsigned_tx.output[1].script_pubkey)

\* funding level k can be met on its own: the least fee that covers the
\* dummy fee of k cardinal inputs and clears min_fee leaves change that the
\* builder's dust check accepts
Achievable(a, k) ==
    LET nf == NetworkFeeAt(a, k)
        f == IF nf > a.min_fee THEN nf ELSE a.min_fee + 1
    IN  CardinalAmount(a, k) - NeedOf(a) - f >= DustLimit(a)

\* C3: a build that returns, returns Err(UtxoNotEnough) exactly when no
\* funding level of the cardinal list is achievable.
C3_UtxoNotEnoughIff ==
    (pc = "done" /\ result \in {"Ok", "UtxoNotEnough"}) =>
        (result = "UtxoNotEnough"
            <=> ~ \E k \in 1..Len(args.cardinal_utxos) : Achievable(args, k))

C5_ValueConservation ==
    result = "Ok" =>
        /\ psbt.unsigned_tx.output[1].value =
              CardinalAmount(args, CardinalInputs) - NetworkFeeAt(args, CardinalInputs)
                - extra_network_fee - NeedOf(args)
        /\ PsbtInputValue - PsbtOutputValue = network_fee + extra_network_fee
        /\ (need_amount = 0 /\ network_fee > args.min_fee) =>
              psbt.unsigned_tx.output[1].value
                  = CardinalAmount(args, CardinalInputs) - network_fee

\* C19: a returned build pays network_fee + extra_network_fee =
\* max(network_fee, min_fee + 1) for the inputs it used: extra_network_fee is
\* the least bump that clears min_fee at the final funding level.
C19_MinimalFeeBump ==
    result = "Ok" =>
        network_fee + extra_network_fee
            = IF network_fee > args.min_fee + 1 THEN network_fee ELSE args.min_fee + 1

\* C20: a build whose victims bring more than they ask for (outputs_amount <
\* inputs_amount) ends as any other: with Ok and output[0].value = the
\* cardinal amount + (inputs_amount - outputs_amount) - network_fee -
\* extra_network_fee, or with UtxoNotEnough; it does not abort.
C20_NegativeShortfall ==
    (/\ pc = "done"
     /\ result # "MissingDummyUtxo"
     /\ OutputsAmount(args.snipe_utxo_pairs) < PrevoutsAmount(args.snipe_utxo_pairs)) =>
        /\ result \in {"Ok", "UtxoNotEnough"}
        /\ result = "Ok" =>
              psbt.unsigned_tx.output[1].value =
                  CardinalAmount(args, CardinalInputs)
                    + (PrevoutsAmount(args.snipe_utxo_pairs) - OutputsAmount(args.snipe_utxo_pairs))
                    - network_fee - extra_network_fee

\* the output an outpoint of the arguments names: of a victim pair, of a
\* cardinal UTXO or of a dummy UTXO
PreviousOutput(a, outpoint) ==
    LET victims == {i \in 1..Len(a.snipe_utxo_pairs) :
                       a.snipe_utxo_pairs[i].txin.previous_output = outpoint}
        cardinals == {j \in 1..Len(a.cardinal_utxos) : a.cardinal_utxos[j].outpoint = outpoint}
        dummies == {j \in 1..Len(a.dummy_utxos) : a.dummy_utxos[j].outpoint = outpoint}
    IN  IF victims # {} THEN a.snipe_utxo_pairs[CHOOSE i \in victims : TRUE].prevout
        ELSE IF cardinals # {} THEN a.cardinal_utxos[CHOOSE j \in cardinals : TRUE].txout
        ELSE a.dummy_utxos[CHOOSE j \in dummies : TRUE].txout

\* C23: a returned PSBT has one record per input and per output; the record
\* of input i has the output spent by input i as witness_utxo, value and
\* script_pubkey as the caller gave them; a victim's record has the victim's
\* final_script_sig and final_script_witness, a wallet input's has neither;
\* the inputs of the transaction have an empty script_sig and witness, a
\* victim's input its sequence.
C23_PsbtMetadata ==
    result = "Ok" =>
        LET tx == psbt.unsigned_tx
        IN  /\ Len(psbt.inputs) = Len(tx.input)
            /\ Len(psbt.outputs) = Len(tx.output)
            /\ \A i \in 1..Len(tx.input) :
                  /\ psbt.inputs[i].witness_utxo
                        = Some(PreviousOutput(args, tx.input[i].previous_output))
                  /\ tx.input[i].script_sig = 0
                  /\ tx.input[i].witness = << >>
                  /\ \A v \in 1..Len(args.snipe_utxo_pairs) :
                        LET txin == args.snipe_utxo_pairs[v].txin
                        IN  tx.input[i].previous_output = txin.previous_output =>
                              /\ psbt.inputs[i].final_script_sig = Some(txin.script_sig)
                              /\ psbt.inputs[i].final_script_witness = Some(txin.witness)
                              /\ tx.input[i].sequence = txin.sequence
                  /\ (\A v \in 1..Len(args.snipe_utxo_pairs) :
                        tx.input[i].previous_output
                            # args.snipe_utxo_pairs[v].txin.previous_output) =>
                              /\ psbt.inputs[i].final_script_sig = None
                              /\ psbt.inputs[i].final_script_witness = None

\* the outpoints of the inputs expected of a build that finalized with k
\* cardinal UTXOs: in the rune variant the first cardinal UTXO, the victims,
\* the 2nd..k-th cardinal UTXOs; in the inscription variant the dummy UTXO,
\* the victims, the k cardinal UTXOs
ExpectedOutpoints(a, k) ==
    LET victims == [i \in 1..Len(a.snipe_utxo_pairs) |->
                       a.snipe_utxo_pairs[i].txin.previous_output]
        cardinals == [j \in 1..k |-> a.cardinal_utxos[j].outpoint]
    IN  IF a.variant = "rune"
        THEN << cardinals[1] >> \o victims \o SubSeq(cardinals, 2, k)
        ELSE << a.dummy_utxos[1].outpoint >> \o victims \o cardinals

\* C24: the wallet-funded inputs of a returned PSBT are the first k cardinal
\* UTXOs, each once and in caller order, at the places of the variant, k
\* being the number taken when the loop finalized; once the loop has
\* finalized no UTXO is taken and the inputs stay as they are.
C24_PrefixConsumption ==
    /\ [](result = "Ok" =>
            /\ taken \in 1..Len(args.cardinal_utxos)
            /\ [i \in 1..Len(psbt.unsigned_tx.input) |->
                    psbt.unsigned_tx.input[i].previous_output]
                  = ExpectedOutpoints(args, taken)
            /\ \A i \in 1..Len(psbt.unsigned_tx.input) :
                  psbt.unsigned_tx.input[i].previous_output \in CardinalOutpoints =>
                     psbt.unsigned_tx.input[i].sequence = "ENABLE_RBF_NO_LOCKTIME")
    /\ [][ok => (taken' = taken /\ unsigned_tx'.input = unsigned_tx.input)]_vars

\* C24 witness: a rune build for one victim that returned with two cardinal
\* UTXOs, the victim's input between them
C24_Witness ==
    /\ result = "Ok"
    /\ args.variant = "rune"
    /\ Len(args.snipe_utxo_pairs) = 1
    /\ taken = 2
    /\ psbt.unsigned_tx.input[2].previous_output
          = args.snipe_utxo_pairs[1].txin.previous_output

\* the builds whose termination is explored: those of Init at 1 sat/vB, to a
\* taproot recv_addr, every cardinal UTXO on pay_addr
LiveInit ==
    /\ Init
    /\ args.fee_rate = 250
    /\ args.rev_addr.kind = "p2tr"
    /\ \A j \in 1..Len(args.cardinal_utxos) :
          args.cardinal_utxos[j].txout.script_pubkey = args.pay_addr

\* a build is one thread of control: while it has a step to take it takes it
LiveSpec == LiveInit /\ [][Next]_vars /\ WF_vars(Next)

-----------------------------------------------------------------------------
(* RuneId, in decentralized-ffi and in bdk-ffi *)

Ok(x) == [tag |-> "Ok", val |-> x]

Err(e) == [tag |-> "Err", err |-> e]

\* what a call returned
Returned(x) == [tag |-> "returned", val |-> x]

RuneId(block, tx) == [block |-> block, tx |-> tx]

\* RuneId::default()
RuneIdDefault == RuneId(0, 0)

\* decentralized-ffi RuneId::new
RuneIdNew(block, tx) ==
    IF block = 0 /\ tx > 0 THEN Err("InvalidRuneId") ELSE Ok(RuneId(block, tx))

\* bdk-ffi RuneId::new
BdkRuneIdNew(block, tx) ==
    IF block = 0 /\ tx > 0 THEN None ELSE Some(RuneId(block, tx))

\* RuneId::delta, the same text in both crates
Delta(self, next) ==
    IF next.block < self.block THEN None
    ELSE LET block == next.block - self.block
         IN  IF block = 0
             THEN IF next.tx < self.tx THEN None
                  ELSE Some(<< block, next.tx - self.tx >>)
             ELSE Some(<< block, next.tx >>)

\* mutant: tx taken as it is in every case
NextFieldsAbsolute(self, block, tx) ==
    IF block > U64Max \/ self.block + block > U64Max THEN None
    ELSE IF tx > U32Max THEN None
    ELSE Some(<< self.block + block, tx >>)

\* the block and tx RuneId::next computes, None on a failed conversion or sum
NextFields(self, block, tx) ==
    IF block > U64Max \/ self.block + block > U64Max THEN None
    ELSE IF tx > U32Max THEN None
    ELSE IF block = 0 /\ self.tx + tx > U32Max THEN None
    ELSE Some(<< self.block + block, IF block = 0 THEN self.tx + tx ELSE tx >>)

\* decentralized-ffi RuneId::next: the fields go into the struct as they are
RuneIdNext(self, block, tx) ==
    LET f == NextFields(self, block, tx)
    IN  IF f = None THEN None ELSE Some(RuneId(f[1][1], f[1][2]))

\* bdk-ffi RuneId::next: the fields go through RuneId::new
BdkRuneIdNext(self, block, tx) ==
    LET f == NextFields(self, block, tx)
    IN  IF f = None THEN None ELSE BdkRuneIdNew(f[1][1], f[1][2])

\* the characters of the strings tried
Chars == {"0", "5", ":", "x"}

DigitValue(c) ==
    CASE c = "0" -> 0 [] c = "1" -> 1 [] c = "2" -> 2 [] c = "3" -> 3 [] c = "4" -> 4
      [] c = "5" -> 5 [] c = "6" -> 6 [] c = "7" -> 7 [] c = "8" -> 8 [] c = "9" -> 9
      [] OTHER -> -1

\* str::parse::<u64>() and ::<u32>(): decimal digits only, not empty, no
\* overflow; acc is the value read so far
RECURSIVE ParseDigits(_, _, _)
ParseDigits(str, acc, max) ==
    IF str = << >> THEN Some(acc)
    ELSE IF DigitValue(str[1]) < 0 THEN None
    ELSE IF acc * 10 + DigitValue(str[1]) > max THEN None
    ELSE ParseDigits(Tail(str), acc * 10 + DigitValue(str[1]), max)

ParseUnsigned(str, max) == IF str = << >> THEN None ELSE ParseDigits(str, 0, max)

\* s.split_once(':'): the position of the first colon, 0 when there is none
FirstColon(str) ==
    IF \E i \in 1..Len(str) : str[i] = ":"
    THEN CHOOSE i \in 1..Len(str) : str[i] = ":" /\ \A j \in 1..(i - 1) : str[j] # ":"
    ELSE 0

\* RuneId::from_str, which RuneId::from_string forwards to
RuneIdFromString(str) ==
    LET i == FirstColon(str)
    IN  IF i = 0 THEN Err("Separator")
        ELSE LET height == ParseUnsigned(SubSeq(str, 1, i - 1), U64Max)
                 index == ParseUnsigned(SubSeq(str, i + 1, Len(str)), U32Max)
             IN  IF height = None THEN Err("Block")
                 ELSE IF index = None THEN Err("Transaction")
                 ELSE Ok(RuneId(height[1], index[1]))

-----------------------------------------------------------------------------
(* The varint codec, crate::ordinal::rune::varint: 7 data bits a byte, the
   low group first, the high bit set on every byte but the last *)

RECURSIVE encode_groups(_)
encode_groups(value) ==
    IF value < 128 THEN << value >>
    ELSE << (value % 128) + 128 >> \o encode_groups(value \div 128)

\* varint::encode_to_vec(value, &mut payload)
encode_to_vec(value, payload) == payload \o encode_groups(value)

\* reads groups from bytes[i] on; acc is the value so far and mult the weight
\* of the next group, which stops growing once no group can fit
RECURSIVE decode_from(_, _, _, _)
decode_from(bytes, i, acc, mult) ==
    IF i > Len(bytes) THEN Err("Unterminated")
    ELSE LET group == bytes[i] % 128
         IN  IF group > 0 /\ (mult > U128Max \/ acc + group * mult > U128Max)
             THEN Err("Overflow")
             ELSE IF bytes[i] < 128 THEN Ok(<< acc + group * mult, i >>)
             ELSE decode_from(bytes, i + 1, acc + group * mult,
                              IF mult > U128Max THEN mult ELSE mult * 128)

\* varint::decode(bytes): the value and the number of bytes read
decode(bytes) == decode_from(bytes, 1, 0, 1)

-----------------------------------------------------------------------------
(* The runestone parser *)

TagBody == 0

TagMint == 20

OP_RETURN == 106

OP_PUSHNUM_13 == 93

OP_PUSHBYTES_75 == 75

OP_PUSHDATA1 == 76

OP_PUSHDATA2 == 77

OP_PUSHDATA4 == 78

\* Tag::encode(values, payload): the tag before each value
RECURSIVE encode(_, _, _)
encode(tag, values, payload) ==
    IF values = << >> THEN payload
    ELSE encode(tag, Tail(values),
                encode_to_vec(values[1], encode_to_vec(tag, payload)))

\* mutant: the index moves one byte whatever was read
advance_one(i, length) == i + 1

\* i += length
advance(i, length) == i + length

RECURSIVE integers_from(_, _, _)
integers_from(payload, i, ints) ==
    IF i > Len(payload) THEN Ok(ints)
    ELSE LET r == decode(SubSeq(payload, i, Len(payload)))
         IN  IF r.tag = "Err" THEN Err("DecodePayload")
             ELSE integers_from(payload, advance(i, r.val[2]), Append(ints, r.val[1]))

\* integers(payload)
integers(payload) == integers_from(payload, 1, << >>)

Op(opcode) == [kind |-> "Op", op |-> opcode, bytes |-> << >>]

PushBytes(bytes) == [kind |-> "PushBytes", op |-> 0, bytes |-> bytes]

\* Err(_) of the instruction iterator, which ends after it
InstructionError == [kind |-> "Err", op |-> 0, bytes |-> << >>]

\* the length a push opcode announces in n little-endian bytes; a length
\* with a byte above the second set is longer than any script here
PushLength(rest, n) ==
    IF \E k \in 3..n : rest[k] > 0 THEN 65536
    ELSE rest[1] + IF n > 1 THEN rest[2] * 256 ELSE 0

\* script.instructions(), collected
RECURSIVE instructions(_)
instructions(script) ==
    IF script = << >> THEN << >>
    ELSE LET opcode == script[1]
             rest == Tail(script)
             n == CASE opcode <= OP_PUSHBYTES_75 -> 0
                    [] opcode = OP_PUSHDATA1 -> 1
                    [] opcode = OP_PUSHDATA2 -> 2
                    [] opcode = OP_PUSHDATA4 -> 4
                    [] OTHER -> 0
         IN  IF opcode > OP_PUSHDATA4 THEN << Op(opcode) >> \o instructions(rest)
             ELSE IF Len(rest) < n THEN << InstructionError >>
             ELSE LET len == IF n = 0 THEN opcode ELSE PushLength(rest, n)
                  IN  IF Len(rest) - n < len THEN << InstructionError >>
                      ELSE << PushBytes(SubSeq(rest, n + 1, n + len)) >>
                           \o instructions(SubSeq(rest, n + len + 1, Len(rest)))

\* mutant: any opcode passes for the one looked for
next_is_any_op(instrs, i, opcode) == i <= Len(instrs) /\ instrs[i].kind = "Op"

\* instructions.next() == Some(Ok(Instruction::Op(opcode))), for the i-th call
next_is(instrs, i, opcode) == i <= Len(instrs) /\ instrs[i] = Op(opcode)

\* the data pushes from the i-th instruction on, concatenated
RECURSIVE payload_of(_, _)
payload_of(instrs, i) ==
    IF i > Len(instrs) THEN << >>
    ELSE (IF instrs[i].kind = "PushBytes" THEN instrs[i].bytes ELSE << >>)
         \o payload_of(instrs, i + 1)

Edict(id, amt, output) == [id |-> id, amount |-> amt, output |-> output]

\* chunk[2] as u64
AsU64(v) == v % (U64Max + 1)

\* the loop over integers[i + 1..].chunks(4)
RECURSIVE chunks(_, _, _)
chunks(ints, id, edicts) ==
    IF Len(ints) < 4 THEN Ok(edicts)
    ELSE LET next == RuneIdNext(id, ints[1], ints[2])
         IN  IF next = None THEN Ok(edicts)
             ELSE IF ints[4] > U32Max THEN Err("U128Tou32")
             ELSE chunks(SubSeq(ints, 5, Len(ints)), next[1],
                         Append(edicts, Edict(next[1], AsU64(ints[3]), ints[4])))

\* mutant: the value put before the ones the tag already has
push_front(fields, tag, value) ==
    [t \in DOMAIN fields \cup {tag} |->
        IF t \in DOMAIN fields
        THEN IF t = tag THEN << value >> \o fields[t] ELSE fields[t]
        ELSE << value >>]

\* fields.entry(tag).or_default().push_back(value)
push_back(fields, tag, value) ==
    [t \in DOMAIN fields \cup {tag} |->
        IF t \in DOMAIN fields
        THEN IF t = tag THEN Append(fields[t], value) ELSE fields[t]
        ELSE << value >>]

\* the loop over (0..integers.len()).step_by(2): the edicts and the fields it
\* leaves, or the error it returns with; i counts from 1
RECURSIVE fields_and_edicts(_, _, _)
fields_and_edicts(ints, i, fields) ==
    IF i > Len(ints) THEN Ok([edicts |-> << >>, fields |-> fields])
    ELSE IF ints[i] = TagBody
         THEN LET r == chunks(SubSeq(ints, i + 1, Len(ints)), RuneIdDefault, << >>)
              IN  IF r.tag = "Err" THEN r
                  ELSE Ok([edicts |-> r.val, fields |-> fields])
    ELSE IF i + 1 > Len(ints) THEN Ok([edicts |-> << >>, fields |-> fields])
    ELSE fields_and_edicts(ints, i + 2, push_back(fields, ints[i], ints[i + 1]))

\* Tag::Mint.take(&mut fields, |[block, tx]| RuneId::new(..).ok())
take(tag, fields) ==
    IF tag \notin DOMAIN fields THEN None
    ELSE IF Len(fields[tag]) < 2 THEN None
    ELSE LET block == fields[tag][1]
             tx == fields[tag][2]
         IN  IF block > U64Max \/ tx > U32Max THEN None
             ELSE IF RuneIdNew(block, tx).tag = "Err" THEN None
             ELSE Some(RuneIdNew(block, tx).val)

Edicts(edicts) == [rune |-> "Edicts", edicts |-> edicts, rune_id |-> None]

Etching(rune_id) == [rune |-> "Etching", edicts |-> << >>, rune_id |-> Some(rune_id)]

Nothing == [rune |-> "Nothing", edicts |-> << >>, rune_id |-> None]

extract_rune_from_script(script) ==
    LET instrs == instructions(script)
    IN  IF ~next_is(instrs, 1, OP_RETURN) THEN Err("NoOpReturn")
        ELSE IF ~next_is(instrs, 2, OP_PUSHNUM_13) THEN Err("NoMagicNumber")
        ELSE LET ints == integers(payload_of(instrs, 3))
             IN  IF ints.tag = "Err" THEN Err("NoRune")
                 ELSE LET r == fields_and_edicts(ints.val, 1, << >>)
                      IN  IF r.tag = "Err" THEN r
                          ELSE IF r.val.edicts # << >> THEN Ok(Edicts(r.val.edicts))
                          ELSE IF take(TagMint, r.val.fields) # None
                               THEN Ok(Etching(take(TagMint, r.val.fields)[1]))
                          ELSE Ok(Nothing)

\* script::Builder::push_slice
push_slice(script, bytes) ==
    IF Len(bytes) <= OP_PUSHBYTES_75 THEN script \o << Len(bytes) >> \o bytes
    ELSE script \o << OP_PUSHDATA1, Len(bytes) >> \o bytes

-----------------------------------------------------------------------------
(* build_split_rune_psbt *)

\* the script_pubkey made of the bytes of a runestone
OpReturnScript(bytes) == [kind |-> "op_return", id |-> bytes, len |-> Len(bytes)]

RuneIdLess(a, b) == a.block < b.block \/ (a.block = b.block /\ a.tx < b.tx)

\* edicts.sort_by_key(|edict| edict.id), a stable sort
RECURSIVE sort_by_key(_)
sort_by_key(edicts) ==
    IF edicts = << >> THEN << >>
    ELSE LET sorted == sort_by_key(SubSeq(edicts, 1, Len(edicts) - 1))
             e == edicts[Len(edicts)]
             k == Cardinality({i \in 1..Len(sorted) : ~RuneIdLess(e.id, sorted[i].id)})
         IN  SubSeq(sorted, 1, k) \o << e >> \o SubSeq(sorted, k + 1, Len(sorted))

\* the edicts of a runestone written after the Body tag, each id as the
\* delta from the one before
RECURSIVE encode_edicts(_, _, _)
encode_edicts(edicts, previous, payload) ==
    IF edicts = << >> THEN payload
    ELSE LET d == Delta(previous, edicts[1].id)[1]
         IN  encode_edicts(Tail(edicts), edicts[1].id,
                 encode_to_vec(edicts[1].output,
                     encode_to_vec(edicts[1].amount,
                         encode_to_vec(d[2], encode_to_vec(d[1], payload)))))

\* Runestone::encipher of a runestone with edicts only
encipher(rs) ==
    LET payload == IF rs.edicts = << >> THEN << >>
                   ELSE encode_edicts(sort_by_key(rs.edicts), RuneIdDefault,
                                      encode_to_vec(TagBody, << >>))
    IN  IF payload = << >> THEN << OP_RETURN, OP_PUSHNUM_13 >>
        ELSE push_slice(<< OP_RETURN, OP_PUSHNUM_13 >>, payload)

RECURSIVE append_outputs(_, _)
append_outputs(dummy, outputs) ==
    IF outputs = << >> THEN dummy
    ELSE append_outputs(AppendOutput(dummy, outputs[1].script_pubkey), Tail(outputs))

\* the orders runes.into_iter() can yield the entries of the map in
IterationOrders(runes) ==
    {f \in [1..Cardinality(runes) -> runes] :
        \A i, j \in 1..Cardinality(runes) : i # j => f[i] # f[j]}

\* mutant: the runestone output left out
RunestoneOutputNever(runes_len, rs) == << >>

\* the runestone output, pushed if runes_len > 1
RunestoneOutput(runes_len, rs) ==
    IF runes_len > 1 THEN << TxOut(0, OpReturnScript(encipher(rs))) >> ELSE << >>

\* mutant: the fee not taken off the change
SplitChangeNoFee(amt, fee, others) == amt - others

\* amount - network_fee - (the other outputs), the value of the change
SplitChange(amt, fee, others) == amt - fee - others

\* mutant: a subtraction of amounts that never aborts
AmountUnderflowsNever(amt, fee, others) == FALSE

\* amount - network_fee - (the other outputs) is a subtraction of Amount values,
\* from left to right; each one aborts the call when its result would be negative
AmountUnderflows(amt, fee, others) == amt < fee \/ amt - fee < others

\* mutant: the edicts numbered from 1
SplitEdictsFromOne(order) ==
    IF Len(order) > 1
    THEN [i \in 1..Len(order) |-> Edict(order[i].id, order[i].amount, i)]
    ELSE << >>

\* the edicts pushed in the loop over the map if runes_len > 1: the id and the
\* amount of the entry, and the index of the entry in the iteration as output
SplitEdicts(order) ==
    IF Len(order) > 1
    THEN [i \in 1..Len(order) |-> Edict(order[i].id, order[i].amount, i - 1)]
    ELSE << >>

\* build_split_rune_psbt, the map iterated in the given order
build_split_rune_psbt(a, order) ==
    LET runes_len == Len(order)
        dust == MinimalNonDust(a.recv_addr)
        rs == [edicts |-> SplitEdicts(order),
               etching |-> None, mint |-> None, pointer |-> None]
        output == [i \in 1..runes_len |-> TxOut(dust, a.recv_addr)]
                    \o RunestoneOutput(runes_len, rs)
                    \o << TxOut(0, a.change_addr) >>
        dummy_tx == append_outputs(
                        AppendInput(DummyTransactionNew, a.ordi_addr, None, None), output)
        fee == FeeVb(a.fee_rate, Vsize(dummy_tx))
    IN  IF AmountUnderflows(a.amount, fee, dust * runes_len)
        THEN [result |-> "panic"]
        ELSE [result |-> "Ok",
              psbt |-> [unsigned_tx |->
                            [input |-> << TxIn(a.outpoint, "ENABLE_RBF_NO_LOCKTIME") >>,
                             output |-> [output EXCEPT ![Len(output)].value =
                                            SplitChange(a.amount, fee, dust * runes_len)]],
                        inputs |-> << [witness_utxo |-> Some(TxOut(a.amount, a.ordi_addr)),
                                       final_script_witness |-> None,
                                       final_script_sig |-> None] >>,
                        outputs |-> [i \in 1..Len(output) |-> DefaultOutput]],
              rs |-> rs,
              dummy_tx |-> dummy_tx,
              network_fee |-> fee]

(* build_split_inscription_psbt *)

\* the value of the first output of a split of inscriptions
FixedOutputSat == 600

\* mutant: the offsets taken from the last to the first
OffsetOutputsReversed(offsets, recv_addr) ==
    [i \in 1..Len(offsets) |-> TxOut(offsets[Len(offsets) + 1 - i], recv_addr)]

\* the loop over inscription_offsets: one output each, in caller order
OffsetOutputs(offsets, recv_addr) ==
    [i \in 1..Len(offsets) |-> TxOut(offsets[i], recv_addr)]

build_split_inscription_psbt(a) ==
    LET output == << TxOut(FixedOutputSat, a.change_addr) >>
                    \o OffsetOutputs(a.inscription_offsets, a.recv_addr)
                    \o << TxOut(0, a.change_addr) >>
        output_amount == FixedOutputSat + SeqSum(a.inscription_offsets)
        dummy_tx == append_outputs(
                        AppendInput(DummyTransactionNew, a.ordi_addr, None, None), output)
        fee == FeeVb(a.fee_rate, Vsize(dummy_tx))
    IN  IF AmountUnderflows(a.amount, fee, output_amount)
        THEN [result |-> "panic"]
        ELSE [result |-> "Ok",
              psbt |-> [unsigned_tx |->
                            [input |-> << TxIn(a.outpoint, "ENABLE_RBF_NO_LOCKTIME") >>,
                             output |-> [output EXCEPT ![Len(output)].value =
                                            SplitChange(a.amount, fee, output_amount)]],
                        inputs |-> << [witness_utxo |-> Some(TxOut(a.amount, a.ordi_addr)),
                                       final_script_witness |-> None,
                                       final_script_sig |-> None] >>,
                        outputs |-> [i \in 1..Len(output) |-> DefaultOutput]],
              dummy_tx |-> dummy_tx,
              network_fee |-> fee]

-----------------------------------------------------------------------------
(* Calls of the pure functions *)

U32Edge == {0, 1, 2, U32Max - 1, U32Max}

U64Edge == {0, 1, 2, U64Max - 1, U64Max}

U128Edge == {0, 1, 2, U32Max, U32Max + 1, U64Max, U64Max + 1, U128Max}

RuneIds == {RuneId(b, t) : b \in U64Edge, t \in U32Edge}

Impls == {"decentralized-ffi", "bdk-ffi"}

Strings == UNION {[1..n -> Chars] : n \in 0..MaxStrLen}

\* the longest sequence of integers put into a payload
MaxInts == 5

\* the longest script of arbitrary bytes
MaxScriptLen == 4

\* the integers put into payloads
IntValues == {0, 5, TagMint, U32Max + 1, U64Max + 2}

\* the bytes of the arbitrary scripts
ScriptBytes == {0, 1, 2, OP_PUSHDATA1, OP_PUSHNUM_13, OP_RETURN, 128}

\* the opcodes a payload is pushed after
Prefixes == {<< OP_RETURN, OP_PUSHNUM_13 >>, << OP_RETURN >>, << OP_PUSHNUM_13 >>,
             << OP_PUSHNUM_13, OP_RETURN >>, << OP_RETURN, OP_RETURN >>, << >>}

\* the most edict groups after a Body tag
MaxGroups == 2

\* edict groups (block delta, tx delta, amount, output): well-formed ones, one
\* whose amount is above u64, two whose delta leaves the range once an id is
\* reached, one whose output is above u32
Groups == {<< 1, 0, 5, 0 >>, << 0, 5, 5, 1 >>, << 0, 0, U64Max + 2, 0 >>,
           << U64Max, 0, 5, 0 >>, << 0, U32Max, 5, 0 >>, << 1, 0, 5, U32Max + 1 >>}

\* the integers before the Body tag: none, a Mint field, a Mint field after
\* another field, a Mint field of an invalid id, and an odd number of integers
FieldPrefixes == {<< >>, << TagMint, 1, TagMint, 0 >>, << 5, 5, TagMint, 1, TagMint, 5 >>,
                  << TagMint, 0, TagMint, 5 >>, << TagMint, 1, TagMint >>}

\* the integers after the last group
GroupTails == {<< >>, << 5 >>, << 1, 0, 5 >>}

RECURSIVE Flatten(_)
Flatten(seqs) == IF seqs = << >> THEN << >> ELSE seqs[1] \o Flatten(Tail(seqs))

\* the varint encodings of ints, one after the other
RECURSIVE encode_all(_)
encode_all(ints) ==
    IF ints = << >> THEN << >> ELSE encode_to_vec(ints[1], << >>) \o encode_all(Tail(ints))

RuneIdCalls ==
    {[op |-> "new", impl |-> i, block |-> b, tx |-> t]
        : i \in Impls, b \in U64Edge, t \in U32Edge}
    \cup {[op |-> "from_string", s |-> str] : str \in Strings}
    \cup {[op |-> "delta_next", impl |-> i, a |-> a, b |-> b]
        : i \in Impls, a \in RuneIds, b \in RuneIds}
    \cup {[op |-> "next", impl |-> i, a |-> a, block |-> b, tx |-> t]
        : i \in Impls, a \in RuneIds, b \in U128Edge, t \in U128Edge}

\* RuneId::new is called
CallRuneIdNew ==
    /\ call.op = "new"
    /\ ret = NoRet
    /\ ret' = Returned(IF call.impl = "bdk-ffi"
                       THEN BdkRuneIdNew(call.block, call.tx)
                       ELSE RuneIdNew(call.block, call.tx))
    /\ UNCHANGED << call, snipeVars, requestVars >>

\* RuneId::from_string is called
CallRuneIdFromString ==
    /\ call.op = "from_string"
    /\ ret = NoRet
    /\ ret' = Returned(RuneIdFromString(call.s))
    /\ UNCHANGED << call, snipeVars, requestVars >>

\* a.delta(b) is called, and a.next on the delta it returned
CallDeltaNext ==
    /\ call.op = "delta_next"
    /\ ret = NoRet
    /\ LET d == Delta(call.a, call.b)
       IN  ret' = Returned([delta |-> d,
                            next |-> IF d = None THEN None
                                     ELSE IF call.impl = "bdk-ffi"
                                          THEN BdkRuneIdNext(call.a, d[1][1], d[1][2])
                                          ELSE RuneIdNext(call.a, d[1][1], d[1][2])])
    /\ UNCHANGED << call, snipeVars, requestVars >>

\* RuneId::next is called
CallRuneIdNext ==
    /\ call.op = "next"
    /\ ret = NoRet
    /\ ret' = Returned(IF call.impl = "bdk-ffi"
                       THEN BdkRuneIdNext(call.a, call.block, call.tx)
                       ELSE RuneIdNext(call.a, call.block, call.tx))
    /\ UNCHANGED << call, snipeVars, requestVars >>

\* no snipe build is under way
NoArgs == [variant |-> "none"]

SnipeIdle ==
    /\ args = NoArgs
    /\ pc = "idle"
    /\ dummy_signed_tx_1 = DummyTransactionNew
    /\ unsigned_tx = [input |-> << >>, output |-> << >>]
    /\ psbt_inputs = << >>
    /\ need_amount = 0
    /\ extra_network_fee = 0
    /\ amount = 0
    /\ network_fee = 0
    /\ taken = 0
    /\ ok = FALSE
    /\ result = "none"
    /\ psbt = NoPsbt

\* the most rune ids a split is given
MaxRunes == 2

SplitRuneIds == {RuneId(1, 0), RuneId(1, 1), RuneId(2, 0)}

SplitRuneAmounts == {5, U64Max + 2}

\* the maps from rune id to amount of at most MaxRunes entries
RuneMaps ==
    {m \in SUBSET {[id |-> i, amount |-> v] : i \in SplitRuneIds, v \in SplitRuneAmounts} :
        /\ Cardinality(m) <= MaxRunes
        /\ \A x, y \in m : x.id = y.id => x = y}

SplitAmounts == {0, 600, 1000, 10000}

SplitArgs(kind, runes, amt, rk, ck, fr) ==
    [ordi_addr |-> Script(kind, << "ordi", 0 >>),
     outpoint |-> << "ordi", 0 >>,
     amount |-> amt,
     runes |-> runes,
     recv_addr |-> Script(rk, << "recv", 0 >>),
     change_addr |-> Script(ck, << "change", 0 >>),
     fee_rate |-> fr]

\* the most offsets a split of inscriptions is given
MaxOffsets == 2

OffsetValues == {0, 330, 546}

SplitInscriptionArgs(kind, offsets, amt, rk, ck, fr) ==
    [ordi_addr |-> Script(kind, << "ordi", 0 >>),
     outpoint |-> << "ordi", 0 >>,
     amount |-> amt,
     inscription_offsets |-> offsets,
     recv_addr |-> Script(rk, << "recv", 0 >>),
     change_addr |-> Script(ck, << "change", 0 >>),
     fee_rate |-> fr]

\* build_split_inscription_psbt is called
CallSplitInscription ==
    /\ call.op = "split_inscription"
    /\ ret = NoRet
    /\ ret' = Returned(build_split_inscription_psbt(call.args))
    /\ UNCHANGED << call, snipeVars, requestVars >>

\* the script_sig (its length) and the witness (the lengths of its elements)
\* DummyTransaction::append_input is given
Signatures == {None, Some(0), Some(107)}

Witnesses == {None, Some(<< >>), Some(<< 65 >>), Some(<< 72, 33 >>)}

\* DummyTransaction::append_input is called on a new DummyTransaction
CallAppendInput ==
    /\ call.op = "append_input"
    /\ ret = NoRet
    /\ ret' = Returned(AppendInput(DummyTransactionNew, call.script_pubkey,
                                   call.sig, call.witness))
    /\ UNCHANGED << call, snipeVars, requestVars >>

\* DummyTransaction::append_output is called on a new DummyTransaction
CallAppendOutput ==
    /\ call.op = "append_output"
    /\ ret = NoRet
    /\ ret' = Returned(AppendOutput(DummyTransactionNew, call.script_pubkey))
    /\ UNCHANGED << call, snipeVars, requestVars >>

\* a split builder is called once more with the arguments of the call that
\* returned; the map of the second call yields its entries in some order too
CallSplitAgain ==
    /\ call.op \in {"split_rune", "split_inscription"}
    /\ ret # NoRet
    /\ "again" \notin DOMAIN ret
    /\ IF call.op = "split_rune"
       THEN \E order \in IterationOrders(call.args.runes) :
               ret' = [tag |-> "returned", val |-> ret.val,
                       again |-> build_split_rune_psbt(call.args, order)]
       ELSE ret' = [tag |-> "returned", val |-> ret.val,
                    again |-> build_split_inscription_psbt(call.args)]
    /\ UNCHANGED << call, snipeVars, requestVars >>

\* encode_to_vec(v), then decode of what it wrote and of each proper prefix
CallVarint ==
    /\ call.op = "varint"
    /\ ret = NoRet
    /\ LET bytes == encode_to_vec(call.v, << >>)
       IN  ret' = Returned([bytes |-> bytes,
                            decoded |-> decode(bytes),
                            truncated |-> [k \in 1..Len(bytes) |->
                                              decode(SubSeq(bytes, 1, k - 1))]])
    /\ UNCHANGED << call, snipeVars, requestVars >>

\* Tag::encode, then integers() of the payload it wrote
CallTagEncode ==
    /\ call.op = "encode"
    /\ ret = NoRet
    /\ LET payload == encode(call.tag, call.values, << >>)
       IN  ret' = Returned([payload |-> payload, integers |-> integers(payload)])
    /\ UNCHANGED << call, snipeVars, requestVars >>

\* integers() of the encodings of call.values, the last call.cut bytes cut off
CallIntegers ==
    /\ call.op = "integers"
    /\ ret = NoRet
    /\ LET payload == encode_all(call.values)
       IN  ret' = Returned(integers(SubSeq(payload, 1, Len(payload) - call.cut)))
    /\ UNCHANGED << call, snipeVars, requestVars >>

\* extract_rune_from_script is called
CallExtract ==
    /\ call.op = "extract"
    /\ ret = NoRet
    /\ ret' = Returned(extract_rune_from_script(call.script))
    /\ UNCHANGED << call, snipeVars, requestVars >>

\* network_fee plus the outputs other than the change of a split with these
\* arguments: neither depends on the amount, so they are read off a split of
\* the same arguments with an amount that is surely enough
SplitNeeded(op, a) ==
    LET enough == [a EXCEPT !.amount = 100000]
        r == IF op = "split_rune"
             THEN build_split_rune_psbt(enough, CHOOSE o \in IterationOrders(a.runes) : TRUE)
             ELSE build_split_inscription_psbt(enough)
        tx == r.psbt.unsigned_tx
    IN  enough.amount - tx.output[Len(tx.output)].value

\* the amounts a split is called with: the fixed ones, the least amount that
\* pays the fee and the other outputs, and one sat less
AmountsAround(op, a) ==
    SplitAmounts \cup {SplitNeeded(op, a), SplitNeeded(op, a) - 1}

\* build_split_rune_psbt is called; the map yields its entries in some order
CallSplitRune ==
    /\ call.op = "split_rune"
    /\ ret = NoRet
    /\ \E order \in IterationOrders(call.args.runes) :
          ret' = Returned(build_split_rune_psbt(call.args, order))
    /\ UNCHANGED << call, snipeVars, requestVars >>

PureInit ==
    /\ \/ call \in RuneIdCalls
       \/ \E v \in 0..U128Max : call = [op |-> "varint", v |-> v]
       \/ \E tag \in {TagMint, U32Max + 1}, n \in 0..2 : \E f \in [1..n -> IntValues] :
             call = [op |-> "encode", tag |-> tag, values |-> f]
       \/ \E n \in 0..MaxInts, cut \in 0..1 : \E f \in [1..n -> IntValues] :
             call = [op |-> "integers", values |-> f, cut |-> cut]
       \/ \E n \in 0..MaxScriptLen : \E script \in [1..n -> ScriptBytes] :
             call = [op |-> "extract", script |-> script]
       \/ \E prefix \in Prefixes, n \in 0..MaxInts : \E f \in [1..n -> IntValues] :
             call = [op |-> "extract",
                     script |-> IF n = 0 THEN prefix
                                ELSE push_slice(prefix, encode_all(f))]
       \/ \E pre \in FieldPrefixes, n \in 0..MaxGroups, tail \in GroupTails :
             \E g \in [1..n -> Groups] :
                call = [op |-> "extract",
                        script |-> push_slice(<< OP_RETURN, OP_PUSHNUM_13 >>,
                                     encode_all(pre \o << TagBody >> \o Flatten(g) \o tail))]
       \/ \E kind \in {"p2tr", "p2wpkh"}, runes \in RuneMaps,
             rk \in {"p2tr", "p2pkh"}, ck \in {"p2wpkh", "p2tr"}, fr \in FeeRates :
             \E amt \in AmountsAround("split_rune", SplitArgs(kind, runes, 0, rk, ck, fr)) :
                call = [op |-> "split_rune",
                        args |-> SplitArgs(kind, runes, amt, rk, ck, fr)]
       \/ \E kind \in {"p2tr", "p2wpkh"}, n \in 0..MaxOffsets,
             rk \in {"p2tr", "p2pkh"}, ck \in {"p2wpkh", "p2tr"}, fr \in FeeRates :
             \E offsets \in [1..n -> OffsetValues] :
                \E amt \in AmountsAround("split_inscription",
                              SplitInscriptionArgs(kind, offsets, 0, rk, ck, fr)) :
                   call = [op |-> "split_inscription",
                           args |-> SplitInscriptionArgs(kind, offsets, amt, rk, ck, fr)]
       \/ \E kind \in ScriptKinds, sig \in Signatures, witness \in Witnesses :
             call = [op |-> "append_input", script_pubkey |-> Script(kind, << "pay", 0 >>),
                     sig |-> sig, witness |-> witness]
       \/ \E kind \in ScriptKinds :
             call = [op |-> "append_output", script_pubkey |-> Script(kind, << "pay", 0 >>)]
    /\ ret = NoRet
    /\ RequestsIdle
    /\ SnipeIdle

PureNext ==
    \/ CallAppendInput
    \/ CallAppendOutput
    \/ CallRuneIdNew
    \/ CallRuneIdFromString
    \/ CallDeltaNext
    \/ CallRuneIdNext
    \/ CallVarint
    \/ CallTagEncode
    \/ CallIntegers
    \/ CallExtract
    \/ CallSplitRune
    \/ CallSplitInscription
    \/ CallSplitAgain

PureSpec == PureInit /\ [][PureNext]_vars

-----------------------------------------------------------------------------
(* Properties of RuneId *)

ValidRuneId(id) == id.block = 0 => id.tx = 0

\* b >= a in the lexicographic order of (block, tx)
RuneIdGeq(b, a) == b.block > a.block \/ (b.block = a.block /\ b.tx >= a.tx)

\* a RuneId handed out by the call that returned
ReturnedRuneIds ==
    IF ret = NoRet THEN {}
    ELSE CASE call.op = "new" /\ call.impl = "decentralized-ffi" ->
                IF ret.val.tag = "Ok" THEN {ret.val.val} ELSE {}
           [] call.op = "new" /\ call.impl = "bdk-ffi" ->
                {ret.val[i] : i \in 1..Len(ret.val)}
           [] call.op = "from_string" -> IF ret.val.tag = "Ok" THEN {ret.val.val} ELSE {}
           [] call.op = "next" -> {ret.val[i] : i \in 1..Len(ret.val)}
           [] call.op = "extract" ->
                IF ret.val.tag = "Err" THEN {}
                ELSE {ret.val.val.edicts[i].id : i \in 1..Len(ret.val.val.edicts)}
                     \cup {ret.val.val.rune_id[i] : i \in 1..Len(ret.val.val.rune_id)}
           [] OTHER -> {}

\* C8: for valid a and b with b >= a, a.delta(b) is Some((db, dt)) and
\* a.next(db, dt) is Some(b); a.delta(b) is None when b is before a; in
\* both crates.
C8_DeltaNextInverse ==
    (call.op = "delta_next" /\ ret # NoRet
        /\ ValidRuneId(call.a) /\ ValidRuneId(call.b)) =>
        /\ RuneIdGeq(call.b, call.a) => (ret.val.delta # None /\ ret.val.next = Some(call.b))
        /\ ~RuneIdGeq(call.b, call.a) => ret.val.delta = None

\* C8 witness: b in a later block with a smaller tx than a
C8_Witness ==
    /\ call.op = "delta_next"
    /\ ret # NoRet
    /\ ValidRuneId(call.a)
    /\ call.a.block > 0
    /\ call.b.block > call.a.block
    /\ call.b.tx < call.a.tx
    /\ ret.val.next = Some(call.b)

\* C9: every RuneId handed out has block = 0 only with tx = 0; new(0, tx)
\* fails for tx > 0, new(0, 0) and new(n, tx) with n > 0 succeed.
C9_RuneIdValid ==
    /\ \A id \in ReturnedRuneIds : ValidRuneId(id)
    /\ (call.op = "new" /\ ret # NoRet) =>
          LET succeeded == IF call.impl = "bdk-ffi" THEN ret.val # None ELSE ret.val.tag = "Ok"
          IN  succeeded <=> ~(call.block = 0 /\ call.tx > 0)

-----------------------------------------------------------------------------
(* Properties of the runestone parser and of the varint codec *)

StartsWithOpReturn(script) == Len(script) >= 1 /\ script[1] = OP_RETURN

StartsWithMagic(script) ==
    StartsWithOpReturn(script) /\ Len(script) >= 2 /\ script[2] = OP_PUSHNUM_13

Interleaved(tag, values) ==
    [i \in 1..(2 * Len(values)) |-> IF i % 2 = 1 THEN tag ELSE values[i \div 2]]

\* C10: decode of the bytes encode_to_vec(v) wrote gives v and their number;
\* integers() gives back v1..vm from their encodings put one after the other,
\* also when Tag::encode wrote them; decode fails on a cut encoding.
C10_VarintRoundTrip ==
    /\ (call.op = "varint" /\ ret # NoRet) =>
          /\ ret.val.decoded = Ok(<< call.v, Len(ret.val.bytes) >>)
          /\ \A k \in 1..Len(ret.val.bytes) : ret.val.truncated[k].tag = "Err"
    /\ (call.op = "integers" /\ ret # NoRet) =>
          /\ call.cut = 0 => ret.val = Ok(call.values)
          /\ (call.cut = 1 /\ Len(call.values) > 0
                /\ call.values[Len(call.values)] >= 128) => ret.val.tag = "Err"
    /\ (call.op = "encode" /\ ret # NoRet) =>
          ret.val.integers = Ok(Interleaved(call.tag, call.values))

\* C10 witness: a sequence with a value of three bytes before the last
\* value came back whole
C10_Witness ==
    /\ call.op = "integers"
    /\ ret # NoRet
    /\ call.cut = 0
    /\ Len(call.values) >= 3
    /\ call.values[1] = U64Max + 2
    /\ call.values[2] = U32Max + 1
    /\ ret.val = Ok(call.values)

-----------------------------------------------------------------------------
(* Properties of build_split_rune_psbt *)

-----------------------------------------------------------------------------
(* build_rune_snipe_psbt and build_inscription_snipe_psbt: the snipe builder,
   then the split builder on output 0 of the snipe transaction *)

\* Psbt::extract_tx_unchecked_fee_rate: the unsigned transaction with the
\* final scripts and witnesses of the inputs that have them
extract_tx_unchecked_fee_rate(p) ==
    [input |-> [i \in 1..Len(p.unsigned_tx.input) |->
                   [p.unsigned_tx.input[i] EXCEPT
                       !.script_sig = IF p.inputs[i].final_script_sig = None THEN 0
                                      ELSE p.inputs[i].final_script_sig[1],
                       !.witness = IF p.inputs[i].final_script_witness = None THEN << >>
                                   ELSE p.inputs[i].final_script_witness[1]]],
     output |-> p.unsigned_tx.output]

\* Transaction::compute_txid: what the hash covers, the witnesses left out
compute_txid(tx) ==
    [input |-> [i \in 1..Len(tx.input) |->
                   [previous_output |-> tx.input[i].previous_output,
                    script_sig |-> tx.input[i].script_sig,
                    sequence |-> tx.input[i].sequence]],
     output |-> tx.output]

\* mutant: the last output of the snipe transaction taken for the first
LastOutPoint(tx) == << compute_txid(tx), Len(tx.output) - 1 >>

\* bitcoin::OutPoint { txid: tx.compute_txid(), vout: 0 }
SplitOutPoint(tx) == << compute_txid(tx), 0 >>

\* rune_recv_addr.unwrap_or(ordi_addr)
unwrap_or(option, default) == IF option = None THEN default ELSE option[1]

\* the loop over snipe_utxo_pairs: the amounts of each rune id summed, as the
\* entries of the map
RunesMap(pairs) ==
    LET ids == {pairs[i].rune_id : i \in 1..Len(pairs)}
        sum(id) == SeqSum([i \in 1..Len(pairs) |->
                              IF pairs[i].rune_id = id
                              THEN ParseUnsigned(pairs[i].amount, U128Max)[1] ELSE 0])
    IN  {[id |-> id, amount |-> sum(id)] : id \in ids}

\* the (txin, prevout, txout) the builders are given
Triples(pairs) ==
    [i \in 1..Len(pairs) |->
        [txin |-> pairs[i].txin, prevout |-> pairs[i].prevout, txout |-> pairs[i].txout]]

\* the arguments the wrapper hands to the snipe builder
BuilderArgs(variant) ==
    [variant |-> variant,
     snipe_utxo_pairs |-> Triples(call.snipe_utxo_pairs),
     dummy_utxos |-> call.dummy_utxos,
     pay_addr |-> call.pay_addr,
     rev_addr |-> call.ordi_addr,
     fee_rate |-> call.snipe_rate,
     cardinal_utxos |-> call.cardinal_utxos,
     min_fee |-> call.snipe_min_fee]

\* mod.rs lines 69-87: the rune amounts are parsed and summed, a failure is
\* returned as U128Parse; then the snipe builder is entered
EnterRune ==
    /\ pc = "wrapper"
    /\ call.op = "build_rune_snipe_psbt"
    /\ IF \E i \in 1..Len(call.snipe_utxo_pairs) :
             ParseUnsigned(call.snipe_utxo_pairs[i].amount, U128Max) = None
       THEN /\ ret' = Returned([result |-> "U128Parse"])
            /\ pc' = "returned"
            /\ UNCHANGED << args, call >>
       ELSE /\ call' = [call EXCEPT !.runes_map = RunesMap(call.snipe_utxo_pairs)]
            /\ args' = BuilderArgs("rune")
            /\ pc' = "entry"
            /\ ret' = ret
    /\ UNCHANGED << dummy_signed_tx_1, unsigned_tx, psbt_inputs, need_amount,
                    extra_network_fee, amount, network_fee, taken, ok, result, psbt >>
    /\ UNCHANGED requestVars

\* mod.rs lines 126-134: the snipe builder is entered
EnterInscription ==
    /\ pc = "wrapper"
    /\ call.op = "build_inscription_snipe_psbt"
    /\ args' = BuilderArgs("inscription")
    /\ pc' = "entry"
    /\ UNCHANGED << dummy_signed_tx_1, unsigned_tx, psbt_inputs, need_amount,
                    extra_network_fee, amount, network_fee, taken, ok, result, psbt >>
    /\ UNCHANGED << callVars, requestVars >>

\* .build()? on an error of the snipe builder: the error is returned
PropagateError ==
    /\ pc = "done"
    /\ call.op \in {"build_rune_snipe_psbt", "build_inscription_snipe_psbt"}
    /\ result \in {"UtxoNotEnough", "MissingDummyUtxo"}
    /\ ret' = Returned([result |-> result])
    /\ pc' = "returned"
    /\ UNCHANGED << snipeVarsButPc, call, requestVars >>

\* mod.rs lines 89-105 and 136-151: the split builder on output 0 of the
\* extracted snipe transaction, and the pair returned; the dummy transaction
\* and the fee of the split builder are kept beside the pair
BuildSplit ==
    /\ pc = "done"
    /\ call.op \in {"build_rune_snipe_psbt", "build_inscription_snipe_psbt"}
    /\ result = "Ok"
    /\ LET tx == extract_tx_unchecked_fee_rate(psbt)
           a == [ordi_addr |-> call.ordi_addr,
                 outpoint |-> SplitOutPoint(tx),
                 amount |-> tx.output[1].value,
                 runes |-> call.runes_map,
                 inscription_offsets |->
                     [i \in 1..Len(call.snipe_utxo_pairs) |->
                         call.snipe_utxo_pairs[i].prevout.value],
                 recv_addr |-> unwrap_or(call.recv_addr, call.ordi_addr),
                 change_addr |-> call.pay_addr,
                 fee_rate |-> call.split_rate]
       IN  \E split \in IF call.op = "build_rune_snipe_psbt"
                        THEN {build_split_rune_psbt(a, order) :
                                 order \in IterationOrders(a.runes)}
                        ELSE {build_split_inscription_psbt(a)} :
              ret' = Returned(IF split.result = "panic" THEN [result |-> "panic"]
                              ELSE [result |-> "Ok", snipe |-> psbt, split |-> split.psbt,
                                    dummy_tx |-> split.dummy_tx,
                                    network_fee |-> split.network_fee])
    /\ pc' = "returned"
    /\ UNCHANGED << snipeVarsButPc, call, requestVars >>

\* the strings given as rune amounts
AmountStrings == {<< "5" >>, << "x" >>}

PairRuneIds == {RuneId(1, 0), RuneId(2, 0)}

\* the values (prevout, txout) of a victim pair of the wrappers: a pair that
\* asks for more than it brings, and one that brings more than it asks for
PairVictimValues == {<< 546, 1500 >>, << 1500, 546 >>, << 546, 3000 >>}

\* the values of the first dummy UTXO of the wrappers: below, at and above
\* the value of the first output of a split of inscriptions
PairDummyValues == {546, FixedOutputSat, 2000}

\* SnipeRuneUtxoPair lists: the pair, its rune id and the string of its amount
SnipeRuneUtxoPairLists ==
    UNION {{[i \in 1..n |->
                [txin |-> VictimPair(i, f[i][1]).txin,
                 prevout |-> VictimPair(i, f[i][1]).prevout,
                 txout |-> VictimPair(i, f[i][1]).txout,
                 rune_id |-> f[i][2],
                 amount |-> f[i][3]]]
             : f \in [1..n -> PairVictimValues \X PairRuneIds \X AmountStrings]}
           : n \in 0..MaxVictims}

\* SnipeInscriptionPair lists
SnipeInscriptionPairLists ==
    UNION {{[i \in 1..n |-> VictimPair(i, f[i])] : f \in [1..n -> PairVictimValues]}
           : n \in 0..MaxVictims}

\* the values of the cardinal UTXOs of the wrappers: around the thresholds of
\* the snipe transaction, and one that leaves enough for the split
PairCardinalValues(a) ==
    {NetworkFeeAt(a, 2) - NetworkFeeAt(a, 1), Threshold(a) - 1, Threshold(a),
     Threshold(a) + 2000}

PairCardinalLists(a) ==
    UNION {{[j \in 1..k |-> LocalOutput(<< "cardinal", j >>, vs[j], a.pay_addr)]
              : vs \in [1..k -> PairCardinalValues(a)]}
           : k \in 0..MaxCardinal}

PairInit ==
    /\ \E op \in {"build_rune_snipe_psbt", "build_inscription_snipe_psbt"},
          ordi \in {"p2tr", "p2pkh"},
          recv \in {None, Some(Script("p2wpkh", << "recv", 1 >>))} :
          \E pairs \in IF op = "build_rune_snipe_psbt" THEN SnipeRuneUtxoPairLists
                       ELSE SnipeInscriptionPairLists,
             d \in IF op = "build_rune_snipe_psbt" THEN {<< >>}
                   ELSE {<< >>} \cup
                        {<< LocalOutput(<< "dummy", 1 >>, v,
                                        Script("p2wpkh", << "pay", 0 >>)) >>
                           : v \in PairDummyValues} :
             LET a == Shape(IF op = "build_rune_snipe_psbt" THEN "rune" ELSE "inscription",
                            Triples(pairs), d, "p2wpkh", ordi, 250)
             IN  \E c \in PairCardinalLists(a), m \in MinFees(a) :
                    call = [op |-> op,
                            cardinal_utxos |-> c,
                            dummy_utxos |-> d,
                            snipe_utxo_pairs |-> pairs,
                            pay_addr |-> a.pay_addr,
                            ordi_addr |-> a.rev_addr,
                            snipe_min_fee |-> m,
                            snipe_rate |-> a.fee_rate,
                            split_rate |-> 250,
                            recv_addr |-> recv,
                            runes_map |-> {}]
    /\ args = NoArgs
    /\ pc = "wrapper"
    /\ dummy_signed_tx_1 = DummyTransactionNew
    /\ unsigned_tx = [input |-> << >>, output |-> << >>]
    /\ psbt_inputs = << >>
    /\ need_amount = 0
    /\ extra_network_fee = 0
    /\ amount = 0
    /\ network_fee = 0
    /\ taken = 0
    /\ ok = FALSE
    /\ result = "none"
    /\ psbt = NoPsbt
    /\ ret = NoRet
    /\ RequestsIdle

PairNext ==
    \/ EnterRune
    \/ EnterInscription
    \/ PrepareRune
    \/ PrepareInscription
    \/ TakeUtxoRune
    \/ TakeUtxoInscription
    \/ Insufficient
    \/ DustBreak
    \/ Finalize
    \/ BumpFee
    \/ Exhausted
    \/ Return
    \/ PropagateError
    \/ BuildSplit

PairSpec == PairInit /\ [][PairNext]_vars

\* C17: a returned pair has a split whose one input spends output 0 of the
\* snipe transaction and whose witness_utxo is that output, which pays
\* ordi_addr; no pair is returned unless the snipe builder returned Ok, and
\* an error of the snipe builder is the error returned.
C17_SnipeToSplit ==
    (pc = "returned" /\ call.op \in {"build_rune_snipe_psbt", "build_inscription_snipe_psbt"}) =>
        /\ ret.val.result = "Ok" =>
              LET tx == extract_tx_unchecked_fee_rate(ret.val.snipe)
                  split == ret.val.split
              IN  /\ result = "Ok"
                  /\ ret.val.snipe = psbt
                  /\ Len(split.unsigned_tx.input) = 1
                  /\ split.unsigned_tx.input[1].previous_output[1] = compute_txid(tx)
                  /\ split.unsigned_tx.input[1].previous_output[2] = 0
                  /\ split.inputs[1].witness_utxo = Some(ret.val.snipe.unsigned_tx.output[1])
                  /\ ret.val.snipe.unsigned_tx.output[1].script_pubkey = call.ordi_addr
        /\ result \in {"UtxoNotEnough", "MissingDummyUtxo"} => ret.val = [result |-> result]
        /\ result # "Ok" => "split" \notin DOMAIN ret.val

\* C17 witness: a pair returned by build_rune_snipe_psbt for a victim
C17_Witness ==
    /\ pc = "returned"
    /\ call.op = "build_rune_snipe_psbt"
    /\ Len(call.snipe_utxo_pairs) = 1
    /\ ret.val.result = "Ok"

\* a dummy transaction built afresh from a transaction under construction
\* and its per-input records: an input with final scripts is appended with
\* them, any other input with the placeholder of its script_pubkey; the
\* outputs are appended in the order of the transaction
RECURSIVE FreshInputs(_, _)
FreshInputs(dummy, inputs) ==
    IF inputs = << >> THEN dummy
    ELSE FreshInputs(AppendInput(dummy, inputs[1].witness_utxo[1].script_pubkey,
                                 inputs[1].final_script_sig,
                                 inputs[1].final_script_witness),
                     Tail(inputs))

FreshDummy(tx, inputs) == append_outputs(FreshInputs(DummyTransactionNew, inputs), tx.output)

\* how many outputs of a transaction have the script
ScriptCount(tx, script) ==
    Cardinality({i \in 1..Len(tx.output) : tx.output[i].script_pubkey = script})

\* the dummy has the inputs and outputs of the transaction in number, and its
\* output scripts as often
Mirrors(dummy, tx) ==
    /\ Len(dummy.input) = Len(tx.input)
    /\ Len(dummy.output) = Len(tx.output)
    /\ \A i \in 1..Len(tx.output) :
          ScriptCount(dummy, tx.output[i].script_pubkey)
              = ScriptCount(tx, tx.output[i].script_pubkey)

\* C27: where a snipe builder has computed network_fee, and where a split
\* builder has, the dummy transaction has as many inputs and as many outputs
\* as the transaction under construction and the same output scripts as often,
\* and network_fee is the fee of a dummy built afresh from that transaction.
C27_DummyMirrors ==
    /\ (pc \in {"inner", "exit"} /\ taken >= 1) =>
          /\ Mirrors(dummy_signed_tx_1, unsigned_tx)
          /\ network_fee =
                IF args.variant = "rune"
                THEN FeeWu(args.fee_rate, Weight(FreshDummy(unsigned_tx, psbt_inputs)))
                ELSE FeeVb(args.fee_rate, Vsize(FreshDummy(unsigned_tx, psbt_inputs)))
    /\ (pc = "returned" /\ ret.val.result = "Ok") =>
          /\ Mirrors(ret.val.dummy_tx, ret.val.split.unsigned_tx)
          /\ ret.val.network_fee =
                FeeVb(call.split_rate,
                      Vsize(FreshDummy(ret.val.split.unsigned_tx, ret.val.split.inputs)))

\* C27 witness: the fee of a rune build computed with a victim and two
\* cardinal UTXOs, the first of them before the victim in the transaction and
\* after it in the dummy
C27_Witness ==
    /\ pc = "inner"
    /\ args.variant = "rune"
    /\ Len(args.snipe_utxo_pairs) = 1
    /\ taken = 2
    /\ dummy_signed_tx_1.input[1].witness = << 65 >>
    /\ unsigned_tx.input[2].previous_output = args.snipe_utxo_pairs[1].txin.previous_output

\* first-in-first-out sat flow: the sats of the inputs, in the order of the
\* inputs, fill the outputs in the order of the outputs. The offset in that
\* stream at which input j of a PSBT begins, and at which output j of a
\* transaction begins
InputOffset(p, j) == SeqSum([k \in 1..(j - 1) |-> p.inputs[k].witness_utxo[1].value])

OutputOffset(tx, j) == SeqSum([k \in 1..(j - 1) |-> tx.output[k].value])

\* a pair of build_inscription_snipe_psbt returned for at least one victim
InscriptionPairReturned ==
    /\ pc = "returned"
    /\ call.op = "build_inscription_snipe_psbt"
    /\ ret.val.result = "Ok"
    /\ Len(call.snipe_utxo_pairs) >= 1

\* p_0 + ... + p_(i-1) for the victim at position i of the list, from 1
PrevoutsBefore(i) ==
    SeqSum([k \in 1..(i - 1) |-> call.snipe_utxo_pairs[k].prevout.value])

\* the sats of victim i in the stream of the snipe transaction's inputs
SnipeRange(i) ==
    [lo |-> InputOffset(ret.val.snipe, i + 1),
     hi |-> InputOffset(ret.val.snipe, i + 1) + call.snipe_utxo_pairs[i].prevout.value]

\* the sats of the split's one input, output 0 of the snipe transaction, that
\* go to the split's output for victim i
SplitRange(i) ==
    [lo |-> OutputOffset(ret.val.split.unsigned_tx, i + 1),
     hi |-> OutputOffset(ret.val.split.unsigned_tx, i + 1)
              + ret.val.split.unsigned_tx.output[i + 1].value]

\* C30: in a returned pair of build_inscription_snipe_psbt with victims, the
\* sats of victim i's previous output are at offsets [D + p_0 + .. + p_(i-1),
\* D + p_0 + .. + p_i) of output 0 of the snipe transaction, D the value of the
\* first dummy UTXO; output i + 1 of the split covers offsets [600 + p_0 + ..
\* + p_(i-1), 600 + p_0 + .. + p_i) of that output; the ranges are the same for
\* every victim if and only if D = 600.
C30_SatRangeAlignment ==
    InscriptionPairReturned =>
        LET n == Len(call.snipe_utxo_pairs)
            D == call.dummy_utxos[1].txout.value
            p(i) == call.snipe_utxo_pairs[i].prevout.value
        IN  /\ \A i \in 1..n :
                  /\ SnipeRange(i) = [lo |-> D + PrevoutsBefore(i),
                                     hi |-> D + PrevoutsBefore(i) + p(i)]
                  /\ SnipeRange(i).hi <= ret.val.snipe.unsigned_tx.output[1].value
            /\ \A i \in 1..n :
                  /\ SplitRange(i) = [lo |-> FixedOutputSat + PrevoutsBefore(i),
                                     hi |-> FixedOutputSat + PrevoutsBefore(i) + p(i)]
                  /\ SplitRange(i).hi <= ret.val.snipe.unsigned_tx.output[1].value
            /\ (\A i \in 1..n : SnipeRange(i) = SplitRange(i)) <=> D = FixedOutputSat

-----------------------------------------------------------------------------
(* FullScanRequestBuilder, SyncRequestBuilder, FullScanRequest, SyncRequest:
   a Mutex<Option<_>> each, taken by the calls on the object *)

MaxThreads == 2
MaxCalls == 1
MaxObjects == 2

Threads == 1..MaxThreads

\* the methods that take the inner value of an object of each type, and the
\* type of the object a builder's method returns
Methods(type) ==
    CASE type = "SyncRequestBuilder" -> {"inspect_spks", "build"}
      [] type = "FullScanRequestBuilder" -> {"inspect_spks_for_all_keychains", "build"}
      [] type = "SyncRequest" -> {"sync"}
      [] type = "FullScanRequest" -> {"full_scan"}

Built(type) ==
    CASE type = "SyncRequestBuilder" -> "SyncRequest"
      [] type = "FullScanRequestBuilder" -> "FullScanRequest"

\* the error type of a method: of the builders, of the clients
ErrorType(method, client) ==
    IF method \in {"sync", "full_scan"} THEN client ELSE "RequestBuilderError"

Clients == {"EsploraError", "ElectrumError"}

\* Mutex::new(Some(inner)); takers counts the calls that took the value
NewObject(type, inner) == [type |-> type, slot |-> Some(inner), lock |-> 0, takers |-> 0]

\* mutant: the inner value read and left in place
OptionClone(slot) == [value |-> slot, left |-> slot]

\* Option::take: the value, None left in its place
OptionTake(slot) == [value |-> slot, left |-> None]

IdleThread == [pc |-> "idle", calls |-> 0]

\* a caller enters a method of an object it holds
Enter(t) ==
    /\ threads[t].pc \in {"idle", "returned"}
    /\ threads[t].calls < MaxCalls
    /\ \E o \in 1..Len(objects) : \E m \in Methods(objects[o].type), c \in Clients :
          threads' = [threads EXCEPT ![t] =
                         [pc |-> "lock", calls |-> threads[t].calls + 1, object |-> o,
                          method |-> m, error |-> ErrorType(m, c)]]
    /\ UNCHANGED << objects, snipeVars, callVars >>

\* self.0.lock().unwrap(): waits until the mutex is free
Lock(t) ==
    /\ threads[t].pc = "lock"
    /\ objects[threads[t].object].lock = 0
    /\ objects' = [objects EXCEPT ![threads[t].object].lock = t]
    /\ threads' = [threads EXCEPT ![t].pc = "take"]
    /\ UNCHANGED << snipeVars, callVars >>

\* .take() under the guard
Take(t) ==
    /\ threads[t].pc = "take"
    /\ LET o == threads[t].object
           r == OptionTake(objects[o].slot)
       IN  /\ objects' = [objects EXCEPT
                             ![o].slot = r.left,
                             ![o].takers = IF r.value = None THEN @ ELSE @ + 1]
           /\ threads' = [threads EXCEPT ![t] =
                             [pc |-> "unlock", calls |-> threads[t].calls, object |-> o,
                              method |-> threads[t].method, error |-> threads[t].error,
                              guard |-> r.value]]
    /\ UNCHANGED << snipeVars, callVars >>

\* .ok_or(RequestAlreadyConsumed)? and the end of the statement, where the
\* guard of the mutex is dropped
Unlock(t) ==
    /\ threads[t].pc = "unlock"
    /\ objects' = [objects EXCEPT ![threads[t].object].lock = 0]
    /\ threads' = [threads EXCEPT ![t] =
                      IF threads[t].guard = None
                      THEN [pc |-> "returned", calls |-> threads[t].calls,
                            object |-> threads[t].object, method |-> threads[t].method,
                            guard |-> None,
                            ret |-> Err(<< threads[t].error, "RequestAlreadyConsumed" >>)]
                      ELSE [threads[t] EXCEPT !.pc = "body"]]
    /\ UNCHANGED << snipeVars, callVars >>

\* the body of inspect_spks, inspect_spks_for_all_keychains and build: a new
\* object around the builder with the inspector, or around the request built
BuilderBody(t) ==
    /\ threads[t].pc = "body"
    /\ threads[t].method \notin {"sync", "full_scan"}
    /\ Len(objects) < MaxObjects
    /\ LET type == objects[threads[t].object].type
           inner == threads[t].guard[1]
       IN  objects' = Append(objects,
                             IF threads[t].method = "build"
                             THEN NewObject(Built(type), inner)
                             ELSE NewObject(type, inner + 1))
    /\ threads' = [threads EXCEPT ![t] =
                      [pc |-> "returned", calls |-> threads[t].calls,
                       object |-> threads[t].object, method |-> threads[t].method,
                       guard |-> threads[t].guard,
                       ret |-> Ok(Len(objects) + 1)]]
    /\ UNCHANGED << snipeVars, callVars >>

\* the body of full_scan and sync: the request is handed to the client, whose
\* error is returned by `?`, or else the update
ClientBody(t) ==
    /\ threads[t].pc = "body"
    /\ threads[t].method \in {"sync", "full_scan"}
    /\ \E r \in {Ok("Update"), Err(<< threads[t].error, "client" >>)} :
          threads' = [threads EXCEPT ![t] =
                         [pc |-> "returned", calls |-> threads[t].calls,
                          object |-> threads[t].object, method |-> threads[t].method,
                          guard |-> threads[t].guard,
                          ret |-> r]]
    /\ UNCHANGED << objects, snipeVars, callVars >>

RequestTypes ==
    {"SyncRequestBuilder", "FullScanRequestBuilder", "SyncRequest", "FullScanRequest"}

RequestInit ==
    /\ \E type \in RequestTypes : objects = << NewObject(type, 0) >>
    /\ threads = [t \in Threads |-> IdleThread]
    /\ SnipeIdle
    /\ call = NoCall
    /\ ret = NoRet

RequestNext ==
    \E t \in Threads :
        \/ Enter(t)
        \/ Lock(t)
        \/ Take(t)
        \/ Unlock(t)
        \/ BuilderBody(t)
        \/ ClientBody(t)

RequestSpec == RequestInit /\ [][RequestNext]_vars

\* C18: of the calls on one object at most one obtains the inner value, any
\* other returns RequestAlreadyConsumed in the error type of its method, and
\* an object whose value was taken is empty for good, whatever the call that
\* took it returns.
C18_SingleUse ==
    /\ [](/\ \A o \in 1..Len(objects) :
              /\ objects[o].takers <= 1
              /\ objects[o].slot = None <=> objects[o].takers = 1
          /\ \A t \in Threads :
                threads[t].pc = "returned" =>
                   (threads[t].guard = None <=>
                       (threads[t].ret.tag = "Err"
                        /\ threads[t].ret.err[2] = "RequestAlreadyConsumed")))
    /\ [][\A o \in 1..Len(objects) :
             objects[o].slot = None => objects'[o].slot = None]_vars

\* C18 witness: two callers returned from calls on one request, the one with
\* the error of its client, the other with RequestAlreadyConsumed
C18_Witness ==
    \E t, u \in Threads :
        /\ threads[t].pc = "returned" /\ threads[u].pc = "returned"
        /\ threads[t].object = threads[u].object
        /\ threads[t].method \in {"sync", "full_scan"}
        /\ threads[t].ret = Err(<< "EsploraError", "client" >>)
        /\ threads[u].ret = Err(<< "EsploraError", "RequestAlreadyConsumed" >>)
        /\ objects[threads[t].object].slot = None

-----------------------------------------------------------------------------
(* Properties of the edicts and of the result of the parser *)

\* the integers of the payload of a script that starts with the two opcodes
PayloadIntegers(script) == integers(payload_of(instructions(script), 3))

\* the place of the Body tag: the first odd place holding 0, or 0
BodyIndex(ints) ==
    LET at == {i \in 1..Len(ints) : i % 2 = 1 /\ ints[i] = TagBody}
    IN  IF at = {} THEN 0 ELSE CHOOSE i \in at : \A j \in at : i <= j

\* the integers after the Body tag, none without one
AfterBody(ints) ==
    IF BodyIndex(ints) = 0 THEN << >> ELSE SubSeq(ints, BodyIndex(ints) + 1, Len(ints))

GroupDeltaBlock(g, k) == g[4 * (k - 1) + 1]

GroupDeltaTx(g, k) == g[4 * (k - 1) + 2]

GroupAmount(g, k) == g[4 * (k - 1) + 3]

GroupOutput(g, k) == g[4 * (k - 1) + 4]

\* the block of the k-th id: the sum of the block deltas up to it
GroupBlock(g, k) == SeqSum([i \in 1..k |-> GroupDeltaBlock(g, i)])

\* the tx of the k-th id: the tx deltas summed from the last group that
\* changed the block
GroupTx(g, k) ==
    LET changed == {i \in 1..k : GroupDeltaBlock(g, i) # 0}
        from == IF changed = {} THEN 1 ELSE CHOOSE i \in changed : \A j \in changed : j <= i
    IN  SeqSum([i \in 1..(k - from + 1) |-> GroupDeltaTx(g, from + i - 1)])

\* the k-th group is whole, its deltas and its id stay in range and its
\* output is a u32
WellFormedGroup(g, k) ==
    /\ 4 * k <= Len(g)
    /\ GroupDeltaBlock(g, k) <= U64Max
    /\ GroupDeltaTx(g, k) <= U32Max
    /\ GroupBlock(g, k) <= U64Max
    /\ GroupTx(g, k) <= U32Max
    /\ GroupOutput(g, k) <= U32Max

\* the number of well-formed groups before the first that is not
WellFormedGroups(g) ==
    LET good == {j \in 0..(Len(g) \div 4) : \A k \in 1..j : WellFormedGroup(g, k)}
    IN  CHOOSE j \in good : \A i \in good : i <= j

\* C11: when the first j >= 1 groups after the Body tag are well-formed the
\* parser returns Rune::Edicts with exactly j edicts, the k-th with the
\* absolute id and the output of the k-th group, whatever follows them.
C11_BestEffortEdicts ==
    (call.op = "extract" /\ ret # NoRet /\ StartsWithMagic(call.script)
        /\ PayloadIntegers(call.script).tag = "Ok") =>
        LET g == AfterBody(PayloadIntegers(call.script).val)
            j == WellFormedGroups(g)
        IN  j >= 1 =>
              /\ ret.val.tag = "Ok"
              /\ ret.val.val.rune = "Edicts"
              /\ Len(ret.val.val.edicts) = j
              /\ \A k \in 1..j :
                    /\ ret.val.val.edicts[k].id = RuneId(GroupBlock(g, k), GroupTx(g, k))
                    /\ ret.val.val.edicts[k].output = GroupOutput(g, k)

\* C21: an edict returned for a well-formed group carries the amount of
\* the group, whatever the amount in the u128 range.
C21_EdictAmount ==
    (call.op = "extract" /\ ret # NoRet /\ StartsWithMagic(call.script)
        /\ PayloadIntegers(call.script).tag = "Ok"
        /\ ret.val.tag = "Ok" /\ ret.val.val.rune = "Edicts") =>
        LET g == AfterBody(PayloadIntegers(call.script).val)
            j == WellFormedGroups(g)
        IN  \A k \in 1..j :
               k <= Len(ret.val.val.edicts) =>
                  ret.val.val.edicts[k].amount = GroupAmount(g, k)

\* the number of (tag, value) pairs before the Body tag, a last tag without
\* a value left out
FieldPairs(ints) ==
    IF BodyIndex(ints) = 0 THEN Len(ints) \div 2 ELSE (BodyIndex(ints) - 1) \div 2

\* the places, among the pairs, of those of the Mint tag
MintPairs(ints) == {p \in 1..FieldPairs(ints) : ints[2 * p - 1] = TagMint}

\* the id the first two Mint values make, None when there are not two, when
\* they do not fit u64 and u32 or when the id is not valid
MintId(ints) ==
    IF Cardinality(MintPairs(ints)) < 2 THEN None
    ELSE LET p1 == CHOOSE p \in MintPairs(ints) : \A q \in MintPairs(ints) : p <= q
             p2 == CHOOSE p \in MintPairs(ints) \ {p1} :
                      \A q \in MintPairs(ints) \ {p1} : p <= q
             block == ints[2 * p1]
             tx == ints[2 * p2]
         IN  IF block > U64Max \/ tx > U32Max \/ (block = 0 /\ tx > 0) THEN None
             ELSE Some(RuneId(block, tx))

\* the result the order of precedence gives: Edicts if and only if an edict
\* was decoded, else Etching if and only if the Mint values make an id, else
\* Nothing
ResultByPrecedence(script) ==
    LET ints == PayloadIntegers(script).val
    IN  /\ ret.val.tag = "Ok"
        /\ ret.val.val.rune = "Edicts" <=> WellFormedGroups(AfterBody(ints)) >= 1
        /\ ret.val.val.rune = "Etching" <=>
              (WellFormedGroups(AfterBody(ints)) = 0 /\ MintId(ints) # None)
        /\ ret.val.val.rune = "Etching" => ret.val.val.rune_id = MintId(ints)
        /\ ret.val.val.rune \in {"Edicts", "Etching", "Nothing"}

-----------------------------------------------------------------------------
(* Properties of build_snipe_inscription_psbt *)

\* C13: build_snipe_inscription_psbt returns Err(MissingDummyUtxo) exactly
\* when dummy_utxos is empty, before any cardinal UTXO is looked at; a
\* returned PSBT spends the first dummy UTXO as input 0 and no other dummy.
C13_MissingDummyUtxo ==
    (pc = "done" /\ args.variant = "inscription") =>
        /\ result = "MissingDummyUtxo" <=> args.dummy_utxos = << >>
        /\ result = "MissingDummyUtxo" => (taken = 0 /\ unsigned_tx.input = << >>)
        /\ result = "Ok" =>
              /\ psbt.unsigned_tx.input[1].previous_output = args.dummy_utxos[1].outpoint
              /\ psbt.inputs[1].witness_utxo = Some(args.dummy_utxos[1].txout)
              /\ \A i \in 1..Len(psbt.unsigned_tx.input), k \in 2..Len(args.dummy_utxos) :
                    psbt.unsigned_tx.input[i].previous_output # args.dummy_utxos[k].outpoint

\* C13 witness: no dummy UTXO and no cardinal UTXO, MissingDummyUtxo returned
C13_Witness ==
    /\ pc = "done"
    /\ args.variant = "inscription"
    /\ args.dummy_utxos = << >>
    /\ args.cardinal_utxos = << >>
    /\ result = "MissingDummyUtxo"

-----------------------------------------------------------------------------
(* Properties of the split builders *)

SplitReturned ==
    /\ call.op \in {"split_rune", "split_inscription"}
    /\ ret # NoRet
    /\ ret.val.result = "Ok"

C28_NoInsufficiencyOutcome ==
    (call.op \in {"split_rune", "split_inscription"} /\ ret # NoRet) =>
        LET needed == SplitNeeded(call.op, call.args)
        IN  /\ ret.val.result \in {"Ok", "panic"}
            /\ call.args.amount >= needed =>
                  /\ ret.val.result = "Ok"
                  /\ LET tx == ret.val.psbt.unsigned_tx
                     IN  /\ tx.output[Len(tx.output)].value = call.args.amount - needed
                         /\ tx.output[Len(tx.output)].script_pubkey = call.args.change_addr
            /\ call.args.amount < needed =>
                  /\ ret.val.result = "panic"
                  /\ "psbt" \notin DOMAIN ret.val

\* C28 witness: a split returned with a change of 0
C28_Witness ==
    /\ SplitReturned
    /\ call.args.amount > 0
    /\ LET tx == ret.val.psbt.unsigned_tx
       IN  /\ Len(tx.output) > 1
           /\ tx.output[Len(tx.output)].value = 0

\* C26: append_input without a witness makes a witness of one 64-byte element
\* for P2TR, of one 105-byte element for P2WPKH, an empty one otherwise;
\* without a signature it makes a script_sig of length 0, for P2SH and P2WSH
\* too; a signature or a witness that is given is used as it is; append_output
\* adds an output of value 0 with the script given.
C26_PlaceholderSizing ==
    /\ (call.op = "append_input" /\ ret # NoRet) =>
          /\ Len(ret.val.input) = 1
          /\ ret.val.output = << >>
          /\ ret.val.input[1].witness =
                IF call.witness # None THEN call.witness[1]
                ELSE IF call.script_pubkey.kind = "p2tr" THEN << 64 >>
                ELSE IF call.script_pubkey.kind = "p2wpkh" THEN << 105 >>
                ELSE << >>
          /\ ret.val.input[1].script_sig =
                IF call.sig # None THEN call.sig[1] ELSE 0
    /\ (call.op = "append_output" /\ ret # NoRet) =>
          /\ ret.val.input = << >>
          /\ ret.val.output = << TxOut(0, call.script_pubkey) >>

\* the dummy transaction that mirrors a split transaction: ordi_addr's input
\* with its placeholder signature, and the scripts of the outputs
MirrorOfSplit(tx, ordi_addr) ==
    [input |-> AppendInput(DummyTransactionNew, ordi_addr, None, None).input,
     output |-> [i \in 1..Len(tx.output) |-> TxOut(0, tx.output[i].script_pubkey)]]

\* C14: the last output of a returned split PSBT pays change_addr the amount
\* less network_fee less the other outputs, network_fee being fee_rate times
\* the vsize of the mirrored dummy; the input less all outputs is network_fee.
C14_SplitChange ==
    SplitReturned =>
        LET tx == ret.val.psbt.unsigned_tx
            n == Len(tx.output)
            fee == FeeVb(call.args.fee_rate, Vsize(MirrorOfSplit(tx, call.args.ordi_addr)))
            others == SeqSum([i \in 1..(n - 1) |-> tx.output[i].value])
            all == SeqSum([i \in 1..n |-> tx.output[i].value])
        IN  /\ tx.output[n].script_pubkey = call.args.change_addr
            /\ tx.output[n].value = call.args.amount - fee - others
            /\ ret.val.psbt.inputs[1].witness_utxo[1].value - all = fee
            /\ tx.output[n].value >= 0

\* C14 witness: a split of two rune ids with a runestone output returned,
\* its change above 0
C14_Witness ==
    /\ SplitReturned
    /\ call.op = "split_rune"
    /\ Len(ret.val.psbt.unsigned_tx.output) = 4
    /\ ret.val.psbt.unsigned_tx.output[4].value > 0

\* C15: a returned split of m offsets has one input, spending the aggregated
\* outpoint, and m + 2 outputs: the 600-sat output, then one output to
\* recv_addr for each offset with the offset as value, in caller order, then
\* the change to change_addr.
C15_SplitInscriptionShape ==
    (SplitReturned /\ call.op = "split_inscription") =>
        LET tx == ret.val.psbt.unsigned_tx
            m == Len(call.args.inscription_offsets)
        IN  /\ Len(tx.input) = 1
            /\ tx.input[1].previous_output = call.args.outpoint
            /\ Len(tx.output) = m + 2
            /\ tx.output[1].value = 600
            /\ \A i \in 1..m :
                  tx.output[i + 1] = TxOut(call.args.inscription_offsets[i], call.args.recv_addr)
            /\ tx.output[m + 2].script_pubkey = call.args.change_addr

\* C15 witness: a split of two different offsets returned
C15_Witness ==
    /\ SplitReturned
    /\ call.op = "split_inscription"
    /\ Len(call.args.inscription_offsets) = 2
    /\ call.args.inscription_offsets[1] # call.args.inscription_offsets[2]

\* C16: a split builder called twice with equal arguments returns equal
\* results: the same transaction, the same PSBT records, and for rune ids the
\* same edicts and so the same runestone script.
C16_SplitDeterminism ==
    (call.op \in {"split_rune", "split_inscription"} /\ ret # NoRet
        /\ "again" \in DOMAIN ret) =>
        ret.again = ret.val
=============================================================================
